---- MODULE Spec2Model ----
(***************************************************************************)
(* ProfileWizard: vertical probe (core/dxf_probe.py), outline sampler      *)
(* (core/probe.py), path planner (core/planner.py), export facade          *)
(* (core/operations.py) and the two post processors                        *)
(* (core/post_processors/osai_post.py, breton_post.py).                    *)
(*                                                                         *)
(* Lengths are integers in thousandths of a millimetre (the resolution of  *)
(* the settings spin boxes), feeds in thousandths of mm/min.  Heights that *)
(* the probe computes are kept exact: a height is (n + s*sqrt(d)) / q.     *)
(* Python's floats are modelled by this exact arithmetic.                  *)
(***************************************************************************)
EXTENDS Integers, Sequences, FiniteSets, TLC

VARIABLES
    \* ---- VerticalProbe object and its last query
    arcs, circs, polys, lines,     \* the four buckets (sequences of entities)
    probe_op, probe_x, probe_y,    \* last call on the probe, its x and its answer
    \* ---- planner / operations
    plan_in, plan_out,
    \* ---- post processor object, its output and the written file
    post, prog, out_file, gen_op, gen_err,
    \* ---- ProcessManager._passes, the list widget's current row (1-based, 0:
    \* no list), the arguments of the last post processor construction, and
    \* the items of the ProcessListWidget: their text and their payload
    mgr_passes, sel, handed, process_list

vars == <<arcs, circs, polys, lines, probe_op, probe_x, probe_y,
          plan_in, plan_out, post, prog, out_file, gen_op, gen_err,
          mgr_passes, sel, handed, process_list>>

probeVars == <<arcs, circs, polys, lines, probe_op, probe_x, probe_y>>
planVars  == <<plan_in, plan_out>>
genVars   == <<post, prog, out_file, gen_op, gen_err>>
uiVars    == <<mgr_passes, sel, handed, process_list>>

----------------------------------------------------------------------------
\* Python's None; an optional value v is <<v>>.
None == <<>>
Some(v) == <<v>>
IsNone(o) == o = <<>>
Val(o) == o[1]

Abs(a) == IF a < 0 THEN -a ELSE a
Min2(a, b) == IF a <= b THEN a ELSE b
Max2(a, b) == IF a >= b THEN a ELSE b

RECURSIVE GCD(_, _)
GCD(a, b) == IF b = 0 THEN a ELSE GCD(b, a % b)

----------------------------------------------------------------------------
(* Exact numbers (n + s*sqrt(d)) / q, in canonical form:                   *)
(*   q > 0; s = 0 <=> d = 0; d > 0 => q = 1 and d is no perfect square;    *)
(*   d = 0 => gcd(|n|, q) = 1.                                             *)
(* Canonical forms are unique, so = on them is equality of the values.     *)

\* the rational n/q, q # 0
Rat(n, q) ==
    LET sg == IF q < 0 THEN -1 ELSE 1
        g  == GCD(Abs(n), Abs(q))
    IN  [n |-> (sg * n) \div g, q |-> Abs(q) \div g, s |-> 0, d |-> 0]

Int2Num(n) == Rat(n, 1)

\* floor of sqrt(d) for 0 <= d <= r*r  (math.sqrt, kept exact)
ISqrt(d, r) == CHOOSE k \in 0..Abs(r) : k * k <= d /\ d < (k + 1) * (k + 1)

\* a + s*sqrt(d), s in {-1, 1}, 0 <= d <= r*r
Surd(a, s, d, r) ==
    LET k == ISqrt(d, r)
    IN  IF k * k = d THEN Int2Num(a + s * k)
        ELSE [n |-> a, q |-> 1, s |-> s, d |-> d]

\* ssqrt(N) <= M, where ssqrt(N) = sign(N) * sqrt(|N|)
SsqrtLeqInt(N, M) ==
    IF N >= 0 THEN M >= 0 /\ N <= M * M
    ELSE M >= 0 \/ -N >= M * M

\* M <= ssqrt(N)
IntLeqSsqrt(M, N) ==
    IF N >= 0 THEN M <= 0 \/ M * M <= N
    ELSE M <= 0 /\ M * M >= -N

\* K <= ssqrt(A) - ssqrt(B)
LeqDiff(K, A, B) ==
    LET M == Abs(A) + Abs(B) - K * K
    IN  IF K <= 0 /\ A >= B THEN TRUE
        ELSE IF K >= 0 /\ A <= B THEN K = 0 /\ A = B
        ELSE IF K > 0 THEN SsqrtLeqInt(4 * A * B, M)
        ELSE IntLeqSsqrt(M, 4 * A * B)

\* u <= v
NumLeq(u, v) ==
    LeqDiff(u.n * v.q - v.n * u.q,
            v.s * u.q * u.q * v.d,
            u.s * v.q * v.q * u.d)

NumLt(u, v) == ~NumLeq(v, u)

\* Python's max(a, b): b only if b is strictly greater
NumMax(u, v) == IF NumLt(u, v) THEN v ELSE u

\* u + k for an integer k
NumAddInt(u, k) == [u EXCEPT !.n = u.n + k * u.q]

----------------------------------------------------------------------------
(* Entities.  Angles are kept as positions on the circle in steps of 45    *)
(* degrees: 0 = 0 deg, 2 = 90 deg, 4 = 180 deg, 6 = 270 deg, 8 = 360 deg, *)
(* and an odd position stands for every angle strictly inside that         *)
(* quadrant.  Start and end angles of the modelled arcs are multiples of   *)
(* 90 degrees, for which the comparisons of _on_arc_ccw are exact.         *)

FullTurn == 8

MkArc(cx, cy, r, start, end, ccw) ==
    [type |-> "ARC", cx |-> cx, cy |-> cy, r |-> r,
     start |-> start, end |-> end, ccw |-> ccw]
MkCircle(cx, cy, r) == [type |-> "CIRCLE", cx |-> cx, cy |-> cy, r |-> r]
MkLine(x1, y1, x2, y2) ==
    [type |-> "LINE", x1 |-> x1, y1 |-> y1, x2 |-> x2, y2 |-> y2]
\* segs: what virtual_entities() yields for the polyline (lines and arcs)
MkPoly(segs) == [type |-> "LWPOLYLINE", segs |-> segs]
MkOther == [type |-> "POINT"]

\* math.degrees(math.atan2(dy, dx)) % 360.0, from the signs of dx and dy
AngleDeg(sdx, sdy) ==
    IF sdy = 0 THEN (IF sdx < 0 THEN 4 ELSE 0)
    ELSE IF sdy > 0 THEN (IF sdx > 0 THEN 1 ELSE IF sdx = 0 THEN 2 ELSE 3)
    ELSE (IF sdx < 0 THEN 5 ELSE IF sdx = 0 THEN 6 ELSE 7)

Sign(a) == IF a < 0 THEN -1 ELSE IF a = 0 THEN 0 ELSE 1

OnArcCcw(a0, start0, end0) ==
    LET a == a0 % FullTurn
        start == start0 % FullTurn
        end == end0 % FullTurn
    IN  IF start <= end THEN start <= a /\ a <= end
        ELSE (a >= start \/ a <= end)

\* an angle test that ignores the winding direction
OnArc_IgnoreWinding(a, start, end, ccw) == OnArcCcw(a, start, end)

OnArc(a, start, end, ccw) ==
    IF ccw THEN OnArcCcw(a, start, end) ELSE OnArcCcw(a, end, start)

\* math.isclose on the integer grid of the model: |a - b| <= 1e-9 * max(|a|, |b|)
\* holds for integers below 10^9 exactly when they are equal
IsClose(a, b) == a = b

\* a circle solver that returns the lower intersection
YCircle_LowerHalf(c, x) ==
    LET dx == x - c.cx
    IN  IF Abs(dx) > c.r THEN None
        ELSE Some(Surd(c.cy, -1, c.r * c.r - dx * dx, c.r))

YCircle(c, x) ==
    LET dx == x - c.cx
    IN  IF Abs(dx) > c.r THEN None
        ELSE Some(Surd(c.cy, 1, c.r * c.r - dx * dx, c.r))

\* a segment solver whose range excludes the endpoints
YLine_OpenEnds(l, x) ==
    IF IsClose(l.x1, l.x2)
    THEN (IF IsClose(x, l.x1) THEN Some(Int2Num(Max2(l.y1, l.y2))) ELSE None)
    ELSE IF x <= Min2(l.x1, l.x2) \/ x >= Max2(l.x1, l.x2) THEN None
    ELSE Some(Rat(l.y1 * (l.x2 - l.x1) + (x - l.x1) * (l.y2 - l.y1), l.x2 - l.x1))

YLine(l, x) ==
    IF IsClose(l.x1, l.x2)
    THEN (IF IsClose(x, l.x1) THEN Some(Int2Num(Max2(l.y1, l.y2))) ELSE None)
    ELSE IF x < Min2(l.x1, l.x2) \/ x > Max2(l.x1, l.x2) THEN None
    ELSE Some(Rat(l.y1 * (l.x2 - l.x1) + (x - l.x1) * (l.y2 - l.y1), l.x2 - l.x1))

YArc(a, x) ==
    LET dx == x - a.cx
    IN  IF Abs(dx) > a.r THEN None
        ELSE LET d  == a.r * a.r - dx * dx
                 sd == IF d = 0 THEN 0 ELSE 1
                 up == OnArc(AngleDeg(Sign(dx), sd), a.start, a.end, a.ccw)
                 lo == OnArc(AngleDeg(Sign(dx), -sd), a.start, a.end, a.ccw)
             IN  IF up THEN Some(Surd(a.cy, 1, d, a.r))
                 ELSE IF lo THEN Some(Surd(a.cy, -1, d, a.r))
                 ELSE None

\* best = y if best is None else max(best, y), over the non-None y of ys
RECURSIVE BestOf(_, _)
BestOf(ys, best) ==
    IF ys = <<>> THEN best
    ELSE LET y == Head(ys)
         IN  BestOf(Tail(ys),
                    IF IsNone(y) THEN best
                    ELSE IF IsNone(best) THEN y
                    ELSE Some(NumMax(Val(best), Val(y))))

\* _y_at_x for the sub-entities of a polyline (lines and arcs)
YSeg(e, x) ==
    IF e.type = "ARC" THEN YArc(e, x)
    ELSE IF e.type = "CIRCLE" THEN YCircle(e, x)
    ELSE IF e.type = "LINE" THEN YLine(e, x)
    ELSE None

YPoly(p, x) == BestOf([i \in 1..Len(p.segs) |-> YSeg(p.segs[i], x)], None)

YAtX(e, x) ==
    IF e.type = "ARC" THEN YArc(e, x)
    ELSE IF e.type = "CIRCLE" THEN YCircle(e, x)
    ELSE IF e.type = "LWPOLYLINE" THEN YPoly(e, x)
    ELSE IF e.type = "LINE" THEN YLine(e, x)
    ELSE None

BucketBest(bucket, x) == BestOf([i \in 1..Len(bucket) |-> YAtX(bucket[i], x)], None)

\* the entities of one dxftype, in source order
RECURSIVE OfType(_, _)
OfType(source, t) ==
    IF source = <<>> THEN <<>>
    ELSE (IF Head(source).type = t THEN <<Head(source)>> ELSE <<>>)
         \o OfType(Tail(source), t)

\* mutation of HighestY: the global maximum over all four buckets
HighestY_GlobalMax(ar, ci, po, li, x) == BucketBest(ar \o ci \o po \o li, x)

\* mutation of HighestY: 0 instead of None when nothing intersects
HighestY_ZeroDefault(ar, ci, po, li, x) ==
    LET b == BucketBest(ar \o ci \o po \o li, x)
    IN  IF IsNone(b) THEN Some(Int2Num(0))
        ELSE IF ~IsNone(BucketBest(ar, x)) THEN BucketBest(ar, x)
        ELSE IF ~IsNone(BucketBest(ci, x)) THEN BucketBest(ci, x)
        ELSE IF ~IsNone(BucketBest(po, x)) THEN BucketBest(po, x)
        ELSE BucketBest(li, x)

HighestY(ar, ci, po, li, x) ==
    IF ~IsNone(BucketBest(ar, x)) THEN BucketBest(ar, x)
    ELSE IF ~IsNone(BucketBest(ci, x)) THEN BucketBest(ci, x)
    ELSE IF ~IsNone(BucketBest(po, x)) THEN BucketBest(po, x)
    ELSE IF ~IsNone(BucketBest(li, x)) THEN BucketBest(li, x)
    ELSE None

----------------------------------------------------------------------------
(* The probe as an object: rebuild() and highest_y().                      *)

MaxEntities == 2
MaxRebuild == 1

ProbeEntities ==
    { MkArc(0, 0, 5, 0, 4, TRUE),       \* upper half circle, counter-clockwise
      MkArc(0, 0, 5, 4, 8, TRUE),       \* lower half circle, 180..360
      MkArc(0, 0, 5, 0, 4, FALSE),      \* clockwise 0..180: the lower half
      MkCircle(0, 0, 5),
      MkArc(1, 2, 0, 0, 4, TRUE),       \* radius 0
      MkCircle(1, 2, 3),
      MkCircle(0, 0, 0),
      MkCircle(0, 0, -1),
      MkLine(-4, 0, 4, 3),
      MkLine(5, 1, -1, 4),              \* drawn right to left
      MkLine(2, 1, 2, 7),               \* vertical
      MkLine(3, 3, 3, 3),               \* zero length
      MkPoly(<<MkLine(-6, 0, 0, 6), MkArc(0, 0, 6, 0, 2, TRUE)>>),
      MkOther }

RECURSIVE SeqsUpTo(_, _)
SeqsUpTo(S, n) ==
    IF n = 0 THEN {<<>>}
    ELSE LET shorter == SeqsUpTo(S, n - 1)
         IN  shorter \cup {Append(q, e) : q \in shorter, e \in S}

ProbeSources == SeqsUpTo(ProbeEntities, MaxEntities)
\* the collections handed to rebuild() on an existing probe
RebuildSources == SeqsUpTo(ProbeEntities, MaxRebuild)
ProbeXs == -6..6

NoProbe ==
    /\ arcs = <<>> /\ circs = <<>> /\ polys = <<>> /\ lines = <<>>
    /\ probe_op = "none" /\ probe_x = None /\ probe_y = None

\* VerticalProbe(source): __init__ stores the types and calls rebuild
ProbeInit ==
    \E source \in ProbeSources :
        /\ arcs  = OfType(source, "ARC")
        /\ circs = OfType(source, "CIRCLE")
        /\ polys = OfType(source, "LWPOLYLINE")
        /\ lines = OfType(source, "LINE")
        /\ probe_op = "init" /\ probe_x = None /\ probe_y = None

\* a rebuild that does not empty the buckets first
Rebuild_KeepsOld(source) ==
    /\ arcs'  = arcs \o OfType(source, "ARC")
    /\ circs' = circs \o OfType(source, "CIRCLE")
    /\ polys' = polys \o OfType(source, "LWPOLYLINE")
    /\ lines' = lines \o OfType(source, "LINE")
    /\ probe_op' = "rebuild"
    /\ probe_x' = None /\ probe_y' = None

Rebuild(source) ==
    /\ arcs'  = OfType(source, "ARC")
    /\ circs' = OfType(source, "CIRCLE")
    /\ polys' = OfType(source, "LWPOLYLINE")
    /\ lines' = OfType(source, "LINE")
    /\ probe_op' = "rebuild"
    /\ probe_x' = None /\ probe_y' = None

QueryHighestY(x) ==
    /\ probe_op' = "highest_y"
    /\ probe_x' = Some(x)
    /\ probe_y' = HighestY(arcs, circs, polys, lines, x)
    /\ UNCHANGED <<arcs, circs, polys, lines>>

----------------------------------------------------------------------------
(* core/planner.py, core/probe.py, core/operations.generate_path.          *)
(* Lengths are integers in thousandths of a millimetre.  The drawings the  *)
(* planner is run on have straight segments whose height is an integer in  *)
(* every sampled column.                                                   *)

\* dict.get(key, default)
Get(o, default) == IF IsNone(o) THEN default ELSE Val(o)

Offsets == 3

\* tol = 1e-3 (square millimetres), in square thousandths
Tol == 1000

\* _colinear: twice the triangle area is at most tol
Colinear(p0, p1, p2) ==
    Abs((p1[1] - p0[1]) * (p2[2] - p0[2]) - (p1[2] - p0[2]) * (p2[1] - p0[1])) <= Tol

\* a reduction loop that tests against the previous raw point
RECURSIVE ReduceLoop_PreviousRaw(_, _, _)
ReduceLoop_PreviousRaw(pts, i, keep) ==
    IF i > Len(pts) - 1 THEN keep
    ELSE ReduceLoop_PreviousRaw(pts, i + 1,
                    IF ~Colinear(pts[i - 1], pts[i], pts[i + 1])
                    THEN Append(keep, pts[i]) ELSE keep)

\* the for loop of the reduction from index i on; keep[-1] is the last kept point
RECURSIVE ReduceLoop(_, _, _)
ReduceLoop(pts, i, keep) ==
    IF i > Len(pts) - 1 THEN keep
    ELSE ReduceLoop(pts, i + 1,
                    IF ~Colinear(keep[Len(keep)], pts[i], pts[i + 1])
                    THEN Append(keep, pts[i]) ELSE keep)

\* the reduction of build_smoothing_path: one pass, first and last point kept
Reduce(pts) ==
    IF Len(pts) >= 3 THEN Append(ReduceLoop(pts, 2, <<pts[1]>>), pts[Len(pts)])
    ELSE pts

\* the height as the float the probe returns; exact on the planner's drawings
Height(num) == num.n \div num.q

\* offs = [blade_width * i / (offsets - 1) for i in range(offsets)]
Offs(blade_width) == [i \in 1..Offsets |-> (blade_width * (i - 1)) \div (Offsets - 1)]

\* the for loop over offs in one column: the highest of the probe's answers
BestY(source, x, blade_width) ==
    BestOf([i \in 1..Offsets |->
               HighestY(OfType(source, "ARC"), OfType(source, "CIRCLE"),
                        OfType(source, "LWPOLYLINE"), OfType(source, "LINE"),
                        x + Offs(blade_width)[i])], None)

\* a sampler that stores best_x, the offset position of the maximum
RECURSIVE SampleLoop_StoreBestX(_, _, _, _, _)
SampleLoop_StoreBestX(source, x, xmax, blade_width, x_step) ==
    IF ~(x <= xmax) THEN <<>>
    ELSE LET best_y == BestY(source, x, blade_width)
             at(i) == HighestY(OfType(source, "ARC"), OfType(source, "CIRCLE"),
                               OfType(source, "LWPOLYLINE"), OfType(source, "LINE"),
                               x + Offs(blade_width)[i])
             first == CHOOSE i \in 1..Offsets :
                          at(i) = best_y /\ \A j \in 1..(i - 1) : at(j) # best_y
         IN  (IF ~IsNone(best_y)
              THEN << <<x + Offs(blade_width)[first], Height(Val(best_y))>> >> ELSE <<>>)
             \o SampleLoop_StoreBestX(source, x + x_step, xmax, blade_width, x_step)

\* the while loop of sample_outline from column x on, x_step > 0
\* a sampler whose loop stops before the column at xmax
RECURSIVE SampleLoop_StopsBeforeXmax(_, _, _, _, _)
SampleLoop_StopsBeforeXmax(source, x, xmax, blade_width, x_step) ==
    IF ~(x < xmax) THEN <<>>
    ELSE LET best_y == BestY(source, x, blade_width)
         IN  (IF ~IsNone(best_y) THEN << <<x, Height(Val(best_y))>> >> ELSE <<>>)
             \o SampleLoop_StopsBeforeXmax(source, x + x_step, xmax, blade_width, x_step)

RECURSIVE SampleLoop(_, _, _, _, _)
SampleLoop(source, x, xmax, blade_width, x_step) ==
    IF ~(x <= xmax) THEN <<>>
    ELSE LET best_y == BestY(source, x, blade_width)
         IN  (IF ~IsNone(best_y) THEN << <<x, Height(Val(best_y))>> >> ELSE <<>>)
             \o SampleLoop(source, x + x_step, xmax, blade_width, x_step)

SampleOutline(source, xmin, xmax, blade_width, x_step) ==
    SampleLoop(source, xmin, xmax, blade_width, x_step)

\* the while loop of sample_outline never ends: x does not move towards xmax
SampleDiverges(xmin, xmax, x_step) == xmin <= xmax /\ x_step <= 0

\* a stock allowance that is added to x as well
AddStock_AlsoX(pts, stock) ==
    IF stock = 0 THEN pts
    ELSE [i \in 1..Len(pts) |-> <<pts[i][1] + stock, pts[i][2] + stock>>]

\* if stock: pts = [(x, y + stock) for x, y in pts]
AddStock(pts, stock) ==
    IF stock = 0 THEN pts
    ELSE [i \in 1..Len(pts) |-> <<pts[i][1], pts[i][2] + stock>>]

MkPath(points, label) == [kind |-> "Path", points |-> points, label |-> label]

\* a roughing planner that samples the bounding box without the blade margin
BuildRoughingPath_NoBladeMargin(dxf, cfg) ==
    LET blade_w == cfg.blade_width
        x_step  == cfg.roughing_stepover
        stock   == Get(cfg.stock_allowance, 0)
        pts     == SampleOutline(dxf.source, dxf.xmin, dxf.xmax, blade_w, x_step)
    IN  MkPath(AddStock(pts, stock), "roughing")

BuildRoughingPath(dxf, cfg) ==
    LET blade_w == cfg.blade_width
        x_step  == cfg.roughing_stepover
        stock   == Get(cfg.stock_allowance, 0)
        pts     == SampleOutline(dxf.source, dxf.xmin - blade_w, dxf.xmax + blade_w,
                                 blade_w, x_step)
    IN  MkPath(AddStock(pts, stock), "roughing")

BuildSmoothingPath(dxf, cfg) ==
    LET blade_w == cfg.blade_width
        x_step  == cfg.smoothing_resolution
        stock   == Get(cfg.smoothing_stock, 0)
        start_x == dxf.xmin - blade_w
        pts     == SampleOutline(dxf.source, start_x, dxf.xmax, blade_w, x_step)
    IN  MkPath(Reduce(AddStock(pts, stock)), "smoothing")

BuildDiverges(dxf, cfg, label) ==
    IF label = "roughing"
    THEN SampleDiverges(dxf.xmin - cfg.blade_width, dxf.xmax + cfg.blade_width,
                        cfg.roughing_stepover)
    ELSE SampleDiverges(dxf.xmin - cfg.blade_width, dxf.xmax, cfg.smoothing_resolution)

\* operations.generate_path: the planner's path, or the ValueError raised
GeneratePath(dxf, cfg, label) ==
    IF label \notin {"roughing", "smoothing"}
    THEN [status |-> "ValueError", path |-> None]
    ELSE LET path == IF label = "roughing" THEN BuildRoughingPath(dxf, cfg)
                     ELSE BuildSmoothingPath(dxf, cfg)
         IN  IF path.points = <<>> THEN [status |-> "ValueError", path |-> None]
             ELSE IF label = "smoothing" /\ Len(path.points) < 2
                  THEN [status |-> "ValueError", path |-> None]
                  ELSE [status |-> "ok", path |-> Some(path)]

\* the drawings the planner is run on, with the extents ezdxf reports for them
PlanDrawings ==
    { [source |-> <<MkLine(0, 0, 2000, 2000)>>, xmin |-> 0, xmax |-> 2000],
      [source |-> <<MkPoly(<<MkLine(0, 1000, 2000, 1000), MkLine(2000, 1000, 4000, 3000)>>)>>,
       xmin |-> 0, xmax |-> 4000],
      [source |-> <<MkLine(0, 1000, 4000, 1000), MkOther>>, xmin |-> 0, xmax |-> 4000],
      [source |-> <<MkLine(2000, 0, 2000, 5000)>>, xmin |-> 2000, xmax |-> 2000],
      [source |-> <<MkOther>>, xmin |-> 0, xmax |-> 0] }

PlanCfgs ==
    [ blade_width : {0, 2000},
      roughing_stepover : {0, 1000, 2000},
      smoothing_resolution : {0, 1000},
      stock_allowance : {None, Some(500)},
      smoothing_stock : {None, Some(0), Some(500)} ]

PlanLabels == {"roughing", "smoothing", "finishing"}

PlanResult(fn, label, status, path) ==
    [fn |-> fn, label |-> label, status |-> status, path |-> path]

\* a call of planner.build_roughing_path that returns
CallBuildRoughing ==
    /\ ~IsNone(plan_in) /\ IsNone(plan_out)
    /\ ~BuildDiverges(Val(plan_in).dxf, Val(plan_in).cfg, "roughing")
    /\ plan_out' = Some(PlanResult("build_roughing_path", "roughing", "ok",
                          Some(BuildRoughingPath(Val(plan_in).dxf, Val(plan_in).cfg))))
    /\ UNCHANGED plan_in

\* a call of planner.build_smoothing_path that returns
CallBuildSmoothing ==
    /\ ~IsNone(plan_in) /\ IsNone(plan_out)
    /\ ~BuildDiverges(Val(plan_in).dxf, Val(plan_in).cfg, "smoothing")
    /\ plan_out' = Some(PlanResult("build_smoothing_path", "smoothing", "ok",
                          Some(BuildSmoothingPath(Val(plan_in).dxf, Val(plan_in).cfg))))
    /\ UNCHANGED plan_in

\* a call of operations.generate_path that returns or raises
CallGeneratePath(label) ==
    /\ ~IsNone(plan_in) /\ IsNone(plan_out)
    /\ ~(label \in {"roughing", "smoothing"}
          /\ BuildDiverges(Val(plan_in).dxf, Val(plan_in).cfg, label))
    /\ plan_out' = Some([fn |-> "generate_path", label |-> label]
                        @@ GeneratePath(Val(plan_in).dxf, Val(plan_in).cfg, label))
    /\ UNCHANGED plan_in

\* a call of probe.sample_outline that returns, over the range and with the
\* step build_roughing_path passes
CallSampleOutline ==
    /\ ~IsNone(plan_in) /\ IsNone(plan_out)
    /\ ~BuildDiverges(Val(plan_in).dxf, Val(plan_in).cfg, "roughing")
    /\ plan_out' = Some(PlanResult("sample_outline", "roughing", "ok",
                          Some(MkPath(SampleOutline(Val(plan_in).dxf.source,
                                          Val(plan_in).dxf.xmin - Val(plan_in).cfg.blade_width,
                                          Val(plan_in).dxf.xmax + Val(plan_in).cfg.blade_width,
                                          Val(plan_in).cfg.blade_width,
                                          Val(plan_in).cfg.roughing_stepover), "roughing"))))
    /\ UNCHANGED plan_in

\* the spans sample_outline is called with directly: <<xmin, xmax>>
SampleSpans == { <<0, 2000>>, <<500, 4000>>, <<-1000, 1000>>, <<3000, 2000>>, <<2000, 2000>> }

\* probe.sample_outline(msp, xmin, xmax, blade_width, x_step) called by itself
CallSampleSpan(span) ==
    /\ ~IsNone(plan_in) /\ IsNone(plan_out)
    /\ ~SampleDiverges(span[1], span[2], Val(plan_in).cfg.roughing_stepover)
    /\ plan_out' = Some([xmin |-> span[1], xmax |-> span[2]]
                        @@ PlanResult("sample_span", "roughing", "ok",
                              Some(MkPath(SampleOutline(Val(plan_in).dxf.source, span[1], span[2],
                                              Val(plan_in).cfg.blade_width,
                                              Val(plan_in).cfg.roughing_stepover), "roughing"))))
    /\ UNCHANGED plan_in

\* a call of the planner that never returns: the step of the sampler is 0
CallPlanDiverges(label) ==
    /\ ~IsNone(plan_in) /\ IsNone(plan_out)
    /\ label \in {"roughing", "smoothing"}
    /\ BuildDiverges(Val(plan_in).dxf, Val(plan_in).cfg, label)
    /\ plan_out' = Some(PlanResult("build", label, "hang", None))
    /\ UNCHANGED plan_in

\* the point sequences the reduction is applied to: one point or none in each
\* of MaxCols columns, ascending x
MaxCols == 5
ReduceYs == {0, 45, 60}

RECURSIVE PointSeqs(_)
PointSeqs(k) ==
    IF k = 0 THEN {<<>>}
    ELSE LET shorter == PointSeqs(k - 1)
         IN  shorter \cup {Append(q, <<10 * (k - 1), y>>) : q \in shorter, y \in ReduceYs}

\* the reduction applied to a point sequence
ApplyReduce ==
    /\ ~IsNone(plan_in) /\ IsNone(plan_out)
    /\ plan_out' = Some(PlanResult("reduce", "smoothing", "ok",
                          Some(MkPath(Reduce(Val(plan_in).points), "smoothing"))))
    /\ UNCHANGED plan_in

----------------------------------------------------------------------------
(* Post processors: OsaiPost and BretonPost.                               *)
(* A program line is a record: n is the Breton line number (None without  *)
(* numbering), kind is "G0", "G1", "comment" or "code", text the fixed     *)
(* wording, X/Y/Z the formatted coordinate words, C the rotary code, F the *)
(* formatted feed word and arg what a comment prints.                      *)

\* nearest integer to v / k for v >= 0, ties to the even neighbour
RoundDiv(v, k) ==
    LET q == v \div k
        r == v % k
    IN  IF 2 * r < k THEN q
        ELSE IF 2 * r > k THEN q + 1
        ELSE IF q % 2 = 0 THEN q ELSE q + 1

\* f"{v:.2f}": hundredths, with the sign the text carries
Fmt2(v) == [neg |-> v < 0, mag |-> RoundDiv(Abs(v), 10)]
\* f"{v:.0f}": whole units
Fmt0(v) == [neg |-> v < 0, mag |-> RoundDiv(Abs(v), 1000)]

FmtOpt(o) == IF IsNone(o) THEN None ELSE Some(Fmt2(Val(o)))

\* mutation of Xyz: the flag is ignored
Xyz_NoSwap(invert, x, y, z) == [X |-> FmtOpt(x), Y |-> FmtOpt(y), Z |-> FmtOpt(z)]

\* mutation of Xyz: the words are exchanged only when both are given
Xyz_SwapPairsOnly(invert, x, y, z) ==
    IF invert /\ ~IsNone(x) /\ ~IsNone(y)
    THEN [X |-> FmtOpt(y), Y |-> FmtOpt(x), Z |-> FmtOpt(z)]
    ELSE [X |-> FmtOpt(x), Y |-> FmtOpt(y), Z |-> FmtOpt(z)]

\* _xyz(x, y, z): the 'X.. Y.. Z..' block, x and y exchanged when inverted
Xyz(invert, x, y, z) ==
    IF invert
    THEN [X |-> FmtOpt(y), Y |-> FmtOpt(x), Z |-> FmtOpt(z)]
    ELSE [X |-> FmtOpt(x), Y |-> FmtOpt(y), Z |-> FmtOpt(z)]

NoXyz == [X |-> None, Y |-> None, Z |-> None]

MkLn(kind, text, w, c, f, arg) ==
    [n |-> None, kind |-> kind, text |-> text,
     X |-> w.X, Y |-> w.Y, Z |-> w.Z, C |-> c, F |-> f, arg |-> arg]

Comment(text, arg) == MkLn("comment", text, NoXyz, None, None, arg)
Code(text) == MkLn("code", text, NoXyz, None, None, None)
Move(kind, w, c, f) == MkLn(kind, "", w, c, f, None)

Reverse(s) == [i \in 1..Len(s) |-> s[Len(s) + 1 - i]]

RECURSIVE Flatten(_)
Flatten(ss) == IF ss = <<>> THEN <<>> ELSE Head(ss) \o Flatten(Tail(ss))

\* x or y for Python floats: y when x is None or 0
OrElse(o, y) == IF IsNone(o) \/ o = Some(0) THEN y ELSE Val(o)

\* OsaiPost.__init__ / BretonPost.__init__
MkPost(dialect, points, smoothing_pts, blade_width, blade_diameter, y_start, y_end, y_step, z_clear, z_max, plunge_feed, cut_feed, cut_feed_xy, invert_xy, line_numbers) ==
    [dialect |-> dialect,
     points |-> points,
     smooth |-> IF IsNone(smoothing_pts) THEN <<>> ELSE Val(smoothing_pts),
     blade_w |-> blade_width, blade_d |-> blade_diameter,
     y0 |-> y_start, y1 |-> y_end,
     y_step |-> Abs(OrElse(y_step, blade_width)),
     z_clear |-> z_clear, z_max |-> z_max,
     f_plunge |-> plunge_feed, f_cut |-> cut_feed,
     f_xy |-> OrElse(cut_feed_xy, cut_feed),
     invert |-> invert_xy,
     number_lines |-> line_numbers, counter |-> 1]

CCode(p) == IF p.invert THEN "C0 A0" ELSE "C-90 A0"

\* step = -self.y_step if self.y0 > self.y1 else self.y_step
StripeStep(p) == IF p.y0 > p.y1 THEN -p.y_step ELSE p.y_step

\* a loop condition that stops one stripe early: traverse_end itself excluded
StripeCond_Strict(p, yy) == IF StripeStep(p) < 0 THEN yy > p.y1 ELSE yy < p.y1

\* cond = (yy >= y1) if step < 0 else (yy <= y1)
StripeCond(p, yy) == IF StripeStep(p) < 0 THEN yy >= p.y1 ELSE yy <= p.y1

\* the while loop of generate() never ends: the step is 0 and cond(y0) holds
StripeLoopDiverges(p) ==
    p.smooth # <<>> /\ StripeStep(p) = 0 /\ StripeCond(p, p.y0)

(* ---- OsaiPost.generate ---- *)

NatArg(k) == Some([neg |-> FALSE, mag |-> k])

OsaiHeader(p) ==
    << Comment("; ------", None),
       Comment(";  SlabCAM - Osai roughing + smoothing", None),
       Comment(";  Roughing cuts :", NatArg(Len(p.points))),
       Comment(";  Blade width   : mm", Some(Fmt2(p.blade_w))),
       Comment(";  Blade diameter: mm", Some(Fmt2(Val(p.blade_d)))),
       Comment(IF p.invert THEN ";  Invert X/Y    : True" ELSE ";  Invert X/Y    : False", None),
       Comment("; ------", None),
       Code("(UAO,3)"),
       Code("M18 ; Retract to max-Z"),
       Code("M30 S1500 ; Spindle ON"),
       Comment(";", None) >>

\* a roughing cycle that cuts across before it plunges
OsaiRoughCycle_CutBeforePlunge(p, idx) ==
    LET x == p.points[idx][1]
        z == p.points[idx][2]
    IN  << Comment("; ---- Rough # ----", NatArg(idx)),
           Move("G0", Xyz(p.invert, None, None, Some(p.z_clear)), None, None),
           Move("G0", Xyz(p.invert, Some(x), Some(p.y0), None), Some(CCode(p)), None),
           Move("G1", Xyz(p.invert, None, Some(p.y1), None), None, Some(Fmt0(p.f_cut))),
           Move("G1", Xyz(p.invert, None, None, Some(z)), None, Some(Fmt0(p.f_plunge))) >>

\* a roughing cycle that rapids to its column without retracting first
OsaiRoughCycle_NoRetract(p, idx) ==
    LET x == p.points[idx][1]
        z == p.points[idx][2]
    IN  << Comment("; ---- Rough # ----", NatArg(idx)),
           Move("G0", Xyz(p.invert, Some(x), Some(p.y0), None), Some(CCode(p)), None),
           Move("G1", Xyz(p.invert, None, None, Some(z)), None, Some(Fmt0(p.f_plunge))),
           Move("G1", Xyz(p.invert, None, Some(p.y1), None), None, Some(Fmt0(p.f_cut))) >>

\* the four motion lines of one roughing cycle, after its comment line
OsaiRoughCycle(p, idx) ==
    LET x == p.points[idx][1]
        z == p.points[idx][2]
    IN  << Comment("; ---- Rough # ----", NatArg(idx)),
           Move("G0", Xyz(p.invert, None, None, Some(p.z_clear)), None, None),
           Move("G0", Xyz(p.invert, Some(x), Some(p.y0), None), Some(CCode(p)), None),
           Move("G1", Xyz(p.invert, None, None, Some(z)), None, Some(Fmt0(p.f_plunge))),
           Move("G1", Xyz(p.invert, None, Some(p.y1), None), None, Some(Fmt0(p.f_cut))) >>

OsaiRoughing(p) ==
    Flatten([idx \in 1..Len(p.points) |-> OsaiRoughCycle(p, idx)])
    \o << Code("M18 ; Retract to max-Z") >>

\* a stripe loop that never clears `first`: every stripe retracts and plunges
RECURSIVE OsaiStripes_EveryStripePlunges(_, _, _, _)
OsaiStripes_EveryStripePlunges(p, y, dir_f, first) ==
    IF ~StripeCond(p, y) THEN <<>>
    ELSE LET seq == IF dir_f THEN p.smooth ELSE Reverse(p.smooth)
             fx == seq[1][1]
             fz == seq[1][2]
             y_next == y + StripeStep(p)
         IN  << Comment(IF dir_f THEN "; ---- stripe Y=  dir=fwd ----"
                        ELSE "; ---- stripe Y=  dir=rev ----", Some(Fmt2(y))),
                Move("G0", Xyz(p.invert, None, None, Some(p.z_clear)), None, None),
                Move("G0", Xyz(p.invert, Some(fx), Some(y), None), Some(CCode(p)), None),
                Move("G1", Xyz(p.invert, None, None, Some(fz)), None, Some(Fmt0(p.f_plunge))),
                Move("G1", Xyz(p.invert, None, Some(y), None), None, Some(Fmt0(p.f_cut))) >>
             \o [i \in 1..Len(seq) |->
                    Move("G1", Xyz(p.invert, Some(seq[i][1]), None, Some(seq[i][2])),
                         None, Some(Fmt0(p.f_xy)))]
             \o (IF StripeCond(p, y_next)
                 THEN << Move("G1", Xyz(p.invert, None, Some(y_next), None), None,
                              Some(Fmt0(p.f_plunge))) >>
                 ELSE <<>>)
             \o OsaiStripes_EveryStripePlunges(p, y_next, ~dir_f, first)

\* a stripe loop that cuts every stripe in the given order of the points
RECURSIVE OsaiStripes_NeverReversed(_, _, _, _)
OsaiStripes_NeverReversed(p, y, dir_f, first) ==
    IF ~StripeCond(p, y) THEN <<>>
    ELSE LET seq == p.smooth
             fx == seq[1][1]
             fz == seq[1][2]
             y_next == y + StripeStep(p)
         IN  << Comment(IF dir_f THEN "; ---- stripe Y=  dir=fwd ----"
                        ELSE "; ---- stripe Y=  dir=rev ----", Some(Fmt2(y))) >>
             \o (IF first
                 THEN << Move("G0", Xyz(p.invert, None, None, Some(p.z_clear)), None, None),
                         Move("G0", Xyz(p.invert, Some(fx), Some(y), None), Some(CCode(p)), None),
                         Move("G1", Xyz(p.invert, None, None, Some(fz)), None, Some(Fmt0(p.f_plunge))) >>
                 ELSE << Move("G0", Xyz(p.invert, Some(fx), Some(y), None), None, None) >>)
             \o << Move("G1", Xyz(p.invert, None, Some(y), None), None, Some(Fmt0(p.f_cut))) >>
             \o [i \in 1..Len(seq) |->
                    Move("G1", Xyz(p.invert, Some(seq[i][1]), None, Some(seq[i][2])),
                         None, Some(Fmt0(p.f_xy)))]
             \o (IF StripeCond(p, y_next)
                 THEN << Move("G1", Xyz(p.invert, None, Some(y_next), None), None,
                              Some(Fmt0(p.f_plunge))) >>
                 ELSE <<>>)
             \o OsaiStripes_NeverReversed(p, y_next, ~dir_f, FALSE)

\* one pass of the while loop and all the passes after it
RECURSIVE OsaiStripes(_, _, _, _)
OsaiStripes(p, y, dir_f, first) ==
    IF ~StripeCond(p, y) THEN <<>>
    ELSE LET seq == IF dir_f THEN p.smooth ELSE Reverse(p.smooth)
             fx == seq[1][1]
             fz == seq[1][2]
             y_next == y + StripeStep(p)
         IN  << Comment(IF dir_f THEN "; ---- stripe Y=  dir=fwd ----"
                        ELSE "; ---- stripe Y=  dir=rev ----", Some(Fmt2(y))) >>
             \o (IF first
                 THEN << Move("G0", Xyz(p.invert, None, None, Some(p.z_clear)), None, None),
                         Move("G0", Xyz(p.invert, Some(fx), Some(y), None), Some(CCode(p)), None),
                         Move("G1", Xyz(p.invert, None, None, Some(fz)), None, Some(Fmt0(p.f_plunge))) >>
                 ELSE << Move("G0", Xyz(p.invert, Some(fx), Some(y), None), None, None) >>)
             \o << Move("G1", Xyz(p.invert, None, Some(y), None), None, Some(Fmt0(p.f_cut))) >>
             \o [i \in 1..Len(seq) |->
                    Move("G1", Xyz(p.invert, Some(seq[i][1]), None, Some(seq[i][2])),
                         None, Some(Fmt0(p.f_xy)))]
             \o (IF StripeCond(p, y_next)
                 THEN << Move("G1", Xyz(p.invert, None, Some(y_next), None), None,
                              Some(Fmt0(p.f_plunge))) >>
                 ELSE <<>>)
             \o OsaiStripes(p, y_next, ~dir_f, FALSE)

\* a smoothing block written whether or not there are smoothing points
OsaiSmoothing_Unconditional(p) ==
    << Comment("; ======", None),
       Comment(";  SMOOTHING PASSES", None),
       Comment("; ======", None) >>
    \o (IF p.smooth = <<>> THEN <<>> ELSE OsaiStripes(p, p.y0, TRUE, TRUE))
    \o << Comment("; ---- end smoothing ----", None),
          Move("G0", Xyz(p.invert, None, None, Some(p.z_clear)), None, None),
          Code("M18 ; Retract to max-Z") >>

OsaiSmoothing(p) ==
    IF p.smooth = <<>> THEN <<>>
    ELSE << Comment("; ======", None),
            Comment(";  SMOOTHING PASSES", None),
            Comment("; ======", None) >>
         \o OsaiStripes(p, p.y0, TRUE, TRUE)
         \o << Comment("; ---- end smoothing ----", None),
               Move("G0", Xyz(p.invert, None, None, Some(p.z_clear)), None, None),
               Code("M18 ; Retract to max-Z") >>

OsaiFooter ==
    << Code("M31 ; Spindle OFF"), Code("M32 ; End of program"), Comment(";", None), Code("") >>

\* generate() of an OsaiPost whose stripe loop ends: the lines, or the error raised
OsaiGenerate(p) ==
    IF IsNone(p.blade_d)
    THEN [status |-> "TypeError", lines |-> <<>>]      \* f"{None:.2f}" in the header
    ELSE [status |-> "ok",
          lines |-> OsaiHeader(p) \o OsaiRoughing(p) \o OsaiSmoothing(p) \o OsaiFooter]

(* ---- BretonPost.generate ---- *)

BretonHeader(p) ==
    << Comment("; Breton G-code", None),
       Code("BRETON_INIT(0)"),
       Code("G518"),
       Code("BRETON_WAREA(MILL)"),
       Code("BRETON_PRE_TOOL"),
       Code("BRETON_CHGTOOL"),
       Code("BRETON_POST_TOOL(5,0)"),
       Code("BRETON_ORIENTATION(0.0000,0.0000,,,,0,0)"),
       Code("BRETON_SETWPLANE(0,0,0,0,0,0)"),
       Code("MS1"),
       Code("M4S1600"),
       Code("M07") >>

\* a Breton roughing cycle whose rapid to the column carries no rotary code
BretonRoughCycle_NoRotary(p, idx) ==
    LET x == p.points[idx][1]
        z == p.points[idx][2]
    IN  << Comment("; ---- Rough # ----", NatArg(idx)),
           Move("G0", Xyz(p.invert, None, None, Some(p.z_clear)), None, None),
           Move("G0", Xyz(p.invert, Some(x), Some(p.y0), None), None, None),
           Move("G1", Xyz(p.invert, None, None, Some(z)), None, Some(Fmt0(p.f_plunge))),
           Move("G1", Xyz(p.invert, None, Some(p.y1), None), None, Some(Fmt0(p.f_cut))) >>

BretonRoughCycle(p, idx) ==
    LET x == p.points[idx][1]
        z == p.points[idx][2]
    IN  << Comment("; ---- Rough # ----", NatArg(idx)),
           Move("G0", Xyz(p.invert, None, None, Some(p.z_clear)), None, None),
           Move("G0", Xyz(p.invert, Some(x), Some(p.y0), None), Some(CCode(p)), None),
           Move("G1", Xyz(p.invert, None, None, Some(z)), None, Some(Fmt0(p.f_plunge))),
           Move("G1", Xyz(p.invert, None, Some(p.y1), None), None, Some(Fmt0(p.f_cut))) >>

BretonRoughing(p) ==
    Flatten([idx \in 1..Len(p.points) |-> BretonRoughCycle(p, idx)])
    \o << Code("M18") >>

\* a Breton stripe loop that steps over after every stripe, the last included
RECURSIVE BretonStripes_AlwaysStepsOver(_, _, _, _)
BretonStripes_AlwaysStepsOver(p, y, dir_f, first) ==
    IF ~StripeCond(p, y) THEN <<>>
    ELSE LET seq == IF dir_f THEN p.smooth ELSE Reverse(p.smooth)
             fx == seq[1][1]
             fz == seq[1][2]
             y_next == y + StripeStep(p)
         IN  << Comment("; ---- stripe Y= ----", Some(Fmt2(y))) >>
             \o (IF first
                 THEN << Move("G0", Xyz(p.invert, None, None, Some(p.z_clear)), None, None),
                         Move("G0", Xyz(p.invert, Some(fx), Some(y), None), Some(CCode(p)), None),
                         Move("G1", Xyz(p.invert, None, None, Some(fz)), None, Some(Fmt0(p.f_plunge))) >>
                 ELSE << Move("G0", Xyz(p.invert, Some(fx), Some(y), None), None, None) >>)
             \o << Move("G1", Xyz(p.invert, None, Some(y), None), None, Some(Fmt0(p.f_cut))) >>
             \o [i \in 1..Len(seq) |->
                    Move("G1", Xyz(p.invert, Some(seq[i][1]), None, Some(seq[i][2])),
                         None, Some(Fmt0(p.f_xy)))]
             \o << Move("G1", Xyz(p.invert, None, Some(y_next), None), None,
                        Some(Fmt0(p.f_plunge))) >>
             \o BretonStripes_AlwaysStepsOver(p, y_next, ~dir_f, FALSE)

RECURSIVE BretonStripes(_, _, _, _)
BretonStripes(p, y, dir_f, first) ==
    IF ~StripeCond(p, y) THEN <<>>
    ELSE LET seq == IF dir_f THEN p.smooth ELSE Reverse(p.smooth)
             fx == seq[1][1]
             fz == seq[1][2]
             y_next == y + StripeStep(p)
         IN  << Comment("; ---- stripe Y= ----", Some(Fmt2(y))) >>
             \o (IF first
                 THEN << Move("G0", Xyz(p.invert, None, None, Some(p.z_clear)), None, None),
                         Move("G0", Xyz(p.invert, Some(fx), Some(y), None), Some(CCode(p)), None),
                         Move("G1", Xyz(p.invert, None, None, Some(fz)), None, Some(Fmt0(p.f_plunge))) >>
                 ELSE << Move("G0", Xyz(p.invert, Some(fx), Some(y), None), None, None) >>)
             \o << Move("G1", Xyz(p.invert, None, Some(y), None), None, Some(Fmt0(p.f_cut))) >>
             \o [i \in 1..Len(seq) |->
                    Move("G1", Xyz(p.invert, Some(seq[i][1]), None, Some(seq[i][2])),
                         None, Some(Fmt0(p.f_xy)))]
             \o (IF StripeCond(p, y_next)
                 THEN << Move("G1", Xyz(p.invert, None, Some(y_next), None), None,
                              Some(Fmt0(p.f_plunge))) >>
                 ELSE <<>>)
             \o BretonStripes(p, y_next, ~dir_f, FALSE)

BretonSmoothing(p) ==
    IF p.smooth = <<>> THEN <<>>
    ELSE BretonStripes(p, p.y0, TRUE, TRUE)
         \o << Comment("; ---- end smoothing ----", None),
               Move("G0", Xyz(p.invert, None, None, Some(p.z_clear)), None, None),
               Code("M18") >>

BretonFooter == << Code("BRETON_ENDPRG"), Code("M30") >>

\* _line(): every added line takes the next number when numbering is on
BretonNumbered(p, ls) ==
    IF p.number_lines
    THEN [i \in 1..Len(ls) |-> [ls[i] EXCEPT !.n = Some(p.counter + i - 1)]]
    ELSE ls

BretonGenerate(p) ==
    [status |-> "ok",
     lines |-> BretonNumbered(p, BretonHeader(p) \o BretonRoughing(p)
                                 \o BretonSmoothing(p) \o BretonFooter)]

\* self._counter after generate()
BretonCounterAfter(p, ls) == IF p.number_lines THEN p.counter + Len(ls) ELSE p.counter

PostGenerate(p) == IF p.dialect = "Breton" THEN BretonGenerate(p) ELSE OsaiGenerate(p)

PostAfterGenerate(p, res) ==
    IF p.dialect = "Breton"
    THEN [p EXCEPT !.counter = BretonCounterAfter(p, res.lines)]
    ELSE p

\* the suffix save() gives the file
Suffix(p) == IF p.dialect = "Breton" THEN ".nc" ELSE ".s10"

(* ---- the post processor as an object, and core.operations.export_gcode ---- *)

MaxRough == 2
MaxSmooth == 2
\* generate() is called again only while Breton's line counter is below this
MaxLineNo == 40

\* candidate points <<x, depth>>, in ascending x as the sampler yields them
RoughCands == << <<0, 10000>>, <<10004, 19996>>, <<20000, -1234>> >>
SmoothCands == << <<0, 5000>>, <<5000, 5127>> >>

\* the subsequences of s (order kept) of at most n elements
RECURSIVE SubSeqsUpTo(_, _)
SubSeqsUpTo(s, n) ==
    IF s = <<>> \/ n = 0 THEN {<<>>}
    ELSE SubSeqsUpTo(Tail(s), n)
         \cup {<<Head(s)>> \o t : t \in SubSeqsUpTo(Tail(s), n - 1)}

\* <<class, blade_diameter, line_numbers>>
DialectOptions ==
    { <<"Osai", None, FALSE>>, <<"Osai", Some(400000), FALSE>>,
      <<"Breton", Some(400000), FALSE>>, <<"Breton", Some(400000), TRUE>> }
\* <<blade_width, y_step>>
StepOptions == { <<3500, None>>, <<3500, Some(10000)>>, <<3500, Some(-4000)>>, <<0, None>> }
\* <<y_start, y_end>>
TraverseOptions == { <<100000, 90000>>, <<90000, 100000>>, <<100000, 100000>> }
CutFeedXYOptions == { None, Some(800000) }

PostInputs ==
    { MkPost(d[1], pts, sm, st[1], d[2], tr[1], tr[2], st[2], 50000, 100000,
             500500, 2000000, fxy, inv, d[3]) :
        d \in DialectOptions, pts \in SubSeqsUpTo(RoughCands, MaxRough),
        sm \in {None} \cup {Some(q) : q \in SubSeqsUpTo(SmoothCands, MaxSmooth)},
        st \in StepOptions, tr \in TraverseOptions,
        fxy \in CutFeedXYOptions, inv \in BOOLEAN }

\* generate() does not return: the header is built and the stripe loop never ends
Diverges(p) ==
    StripeLoopDiverges(p) /\ (p.dialect = "Breton" \/ ~IsNone(p.blade_d))

CanCall ==
    /\ ~IsNone(post) /\ gen_op \notin {"hang", "export"}
    /\ Val(post).counter <= MaxLineNo

\* post.generate()
Generate ==
    /\ CanCall /\ ~Diverges(Val(post))
    /\ LET res == PostGenerate(Val(post))
       IN  /\ prog' = Some(res)
           /\ post' = Some(PostAfterGenerate(Val(post), res))
           /\ gen_err' = IF res.status = "ok" THEN "none" ELSE res.status
    /\ gen_op' = "generate"
    /\ UNCHANGED out_file

\* post.save(path): generate(), then write the text
Save ==
    /\ CanCall /\ ~Diverges(Val(post))
    /\ LET res == PostGenerate(Val(post))
       IN  /\ post' = Some(PostAfterGenerate(Val(post), res))
           /\ gen_err' = IF res.status = "ok" THEN "none" ELSE res.status
           /\ out_file' = IF res.status = "ok"
                          THEN Some([suffix |-> Suffix(Val(post)), lines |-> res.lines])
                          ELSE out_file
    /\ gen_op' = "save"
    /\ UNCHANGED prog

\* generate() or save() on a post whose stripe loop never ends
CallDiverges ==
    /\ CanCall /\ Diverges(Val(post))
    /\ gen_op' = "hang"
    /\ UNCHANGED <<post, prog, out_file, gen_err>>


DefaultStart == 1000000
DefaultEnd == 500000
DefaultZClear == 50000
DefaultZMax == 100000
DefaultPlunge == 500000
DefaultCutFeed == 2000000
DefaultCutFeedXY == 800000

MaxPasses == 3

DxfInfoEntry == [kind |-> "DxfInfo"]

PassEntries ==
    { DxfInfoEntry,
      MkPath(<<<<0, 10000>>>>, "roughing"),
      MkPath(<<<<10004, 19996>>, <<20000, 10000>>>>, "roughing"),
      MkPath(<<>>, "roughing"),
      MkPath(<<<<0, 5000>>, <<5000, 5127>>>>, "smoothing"),
      MkPath(<<<<7000, 1000>>>>, "smoothing") }

ExportCfgs ==
    [controller : {None, Some("Osai"), Some("Breton")},
     table_orientation : {"front", "side"},
     blade_width : {3500}, blade_diameter : {400000},
     start : {Some(100000)}, end : {Some(90000)},
     smoothing_step : {None, Some(10000)},
     z_clearance : {None}, z_max : {None},
     plunge_feed : {None}, roughing_feedrate : {None}, smoothing_feedrate : {None}]

\* rough_pts: the points of every roughing Path, in list order
RECURSIVE RoughPts(_)
RoughPts(passes) ==
    IF passes = <<>> THEN <<>>
    ELSE (IF Head(passes).kind = "Path" /\ Head(passes).label = "roughing"
          THEN Head(passes).points ELSE <<>>)
         \o RoughPts(Tail(passes))

\* a gathering in which a later smoothing Path replaces an earlier one
RECURSIVE SmoothPts_LastPath(_)
SmoothPts_LastPath(passes) ==
    IF passes = <<>> THEN None
    ELSE IF Head(passes).kind = "Path" /\ Head(passes).label = "smoothing"
              /\ IsNone(SmoothPts_LastPath(Tail(passes)))
         THEN Some(Head(passes).points)
         ELSE SmoothPts_LastPath(Tail(passes))

\* smooth_pts: the points of the first smoothing Path, None without one
RECURSIVE SmoothPts(_)
SmoothPts(passes) ==
    IF passes = <<>> THEN None
    ELSE IF Head(passes).kind = "Path" /\ Head(passes).label = "smoothing"
         THEN Some(Head(passes).points)
         ELSE SmoothPts(Tail(passes))

ExportPost(passes, cfg) ==
    MkPost(IF cfg.controller = Some("Breton") THEN "Breton" ELSE "Osai",
           RoughPts(passes), SmoothPts(passes),
           cfg.blade_width, Some(cfg.blade_diameter),
           Get(cfg.start, DefaultStart), Get(cfg.end, DefaultEnd),
           Some(Get(cfg.smoothing_step, cfg.blade_width)),
           Get(cfg.z_clearance, DefaultZClear), Get(cfg.z_max, DefaultZMax),
           Get(cfg.plunge_feed, DefaultPlunge), Get(cfg.roughing_feedrate, DefaultCutFeed),
           Some(Get(cfg.smoothing_feedrate, DefaultCutFeedXY)),
           cfg.table_orientation = "side", FALSE)

\* core.operations.export_gcode(passes, cfg, out_file)
ExportGcode(passes, cfg) ==
    /\ IsNone(post) /\ gen_op = "none"
    /\ UNCHANGED prog
    /\ IF RoughPts(passes) = <<>>
       THEN /\ gen_err' = "ValueError" /\ gen_op' = "export"
            /\ UNCHANGED <<post, out_file, handed>>
       ELSE LET p == ExportPost(passes, cfg)
                res == PostGenerate(p)
            IN  /\ handed' = Some([points |-> RoughPts(passes),
                                   smoothing_pts |-> SmoothPts(passes)])
                /\ IF Diverges(p)
                   THEN /\ post' = Some(p) /\ gen_op' = "hang"
                        /\ UNCHANGED <<out_file, gen_err>>
                   ELSE /\ post' = Some(PostAfterGenerate(p, res))
                        /\ gen_op' = "export"
                        /\ gen_err' = IF res.status = "ok" THEN "none" ELSE res.status
                        /\ out_file' = IF res.status = "ok"
                                       THEN Some([suffix |-> Suffix(p), lines |-> res.lines])
                                       ELSE out_file

(* ---- the routes from planning to export: MainWindow and core.operations ---- *)

\* the number of process rows under the pinned DXF row
MaxProcs == 2

PipeDrawings ==
    { [source |-> <<MkOther, MkLine(0, 1000, 2000, 3000)>>, xmin |-> -3000, xmax |-> 2000],
      [source |-> <<MkLine(0, 0, 2000, 2000)>>, xmin |-> 0, xmax |-> 2000],
      [source |-> <<MkOther>>, xmin |-> 0, xmax |-> 0] }

\* the values typed into the step and resolution spin boxes
PipeSteps == {1000, 8000}

PipeCfg ==
    [blade_width |-> 0, roughing_stepover |-> 1000, smoothing_resolution |-> 1000,
     stock_allowance |-> Some(0), smoothing_stock |-> None]

\* the machine, tool and tool-path settings the export reads
PipeExportCfg(cfg, controller) ==
    [controller |-> Some(controller), table_orientation |-> "front",
     blade_width |-> cfg.blade_width, blade_diameter |-> 400000,
     start |-> Some(100000), end |-> Some(90000), smoothing_step |-> Some(10000),
     z_clearance |-> None, z_max |-> None, plunge_feed |-> None,
     roughing_feedrate |-> None, smoothing_feedrate |-> None]

CurDxf == Val(plan_in).dxf
CurCfg == Val(plan_in).cfg

\* nothing exported yet; the export ends a route
Editing == ~IsNone(plan_in) /\ IsNone(post) /\ gen_op = "none"

\* ProcessListWidget._mk_item: an item with its text (lower case, without the
\* count) and its payload
MkItem(text, payload) == [text |-> text, data |-> payload]

\* the sequence s with the element at row src moved to row dst
MoveRow(s, src, dst) ==
    [i \in 1..Len(s) |-> IF i = dst THEN s[src]
                         ELSE IF src <= i /\ i < dst THEN s[i + 1]
                         ELSE IF dst < i /\ i <= src THEN s[i - 1]
                         ELSE s[i]]

\* ProcessListWidget._sync: every pass replaced by the payload of its row
Sync(passes, items) ==
    [i \in 1..Len(passes) |-> IF i <= Len(items) THEN items[i].data ELSE passes[i]]

\* ProcessListWidget.dropEvent: the current row dropped at row tgt; the first
\* row is neither a source nor a target
UiDrop(tgt) ==
    /\ Editing /\ sel >= 1 /\ tgt \in 1..Len(process_list)
    /\ IF tgt = 1 \/ sel = 1
       THEN UNCHANGED <<process_list, mgr_passes, sel>>
       ELSE /\ process_list' = MoveRow(process_list, sel, tgt)
            /\ mgr_passes' = Sync(mgr_passes, MoveRow(process_list, sel, tgt))
            /\ sel' = tgt
    /\ UNCHANGED <<planVars, handed, genVars>>

\* ProcessListWidget.keyPressEvent for Delete or Backspace: the selected row is
\* taken out of the widget, then proc_mgr.remove(r) is looked up on a
\* ProcessManager, which has no such method
UiDelete ==
    /\ Editing /\ sel >= 1
    /\ IF sel = 1
       THEN UNCHANGED <<process_list, sel, gen_op, gen_err>>
       ELSE /\ process_list' = [i \in 1..(Len(process_list) - 1) |->
                                  IF i < sel THEN process_list[i] ELSE process_list[i + 1]]
            /\ sel' = IF sel < Len(process_list) THEN sel ELSE sel - 1
            /\ gen_op' = "delete" /\ gen_err' = "AttributeError"
    /\ UNCHANGED <<planVars, mgr_passes, handed, post, prog, out_file>>

\* MainWindow.open_dxf: the drawing is replaced, the DXF row refreshed and selected
UiOpenDxf(d) ==
    /\ Editing /\ sel >= 1
    /\ plan_in' = Some([dxf |-> d, cfg |-> CurCfg])
    /\ mgr_passes' = [mgr_passes EXCEPT ![1] = DxfInfoEntry]
    /\ process_list' = [process_list EXCEPT ![1].data = DxfInfoEntry]
    /\ sel' = 1
    /\ UNCHANGED <<plan_out, handed, genVars>>

\* MainWindow.generate_roughing
UiGenerateRoughing ==
    /\ Editing /\ sel >= 1 /\ Len(mgr_passes) <= MaxProcs
    /\ \E path \in {BuildRoughingPath(CurDxf, CurCfg)} :
          IF path.points = <<>>
          THEN UNCHANGED <<mgr_passes, process_list>>
          ELSE /\ mgr_passes' = Append(mgr_passes, path)
               /\ process_list' = Append(process_list, MkItem("roughing", path))
    /\ UNCHANGED <<planVars, sel, handed, genVars>>

\* MainWindow.generate_smoothing
UiGenerateSmoothing ==
    /\ Editing /\ sel >= 1 /\ Len(mgr_passes) <= MaxProcs
    /\ \E path \in {BuildSmoothingPath(CurDxf, CurCfg)} :
          IF Len(path.points) < 2
          THEN UNCHANGED <<mgr_passes, process_list>>
          ELSE /\ mgr_passes' = Append(mgr_passes, path)
               /\ process_list' = Append(process_list, MkItem("smoothing", path))
    /\ UNCHANGED <<planVars, sel, handed, genVars>>

\* a click on a row of the process list
UiSelect(row) ==
    /\ Editing /\ sel >= 1 /\ row \in 1..Len(mgr_passes)
    /\ sel' = row
    /\ UNCHANGED <<planVars, mgr_passes, handed, process_list, genVars>>

\* MainWindow._regen_current_process under the settings cfg: new_path, chosen
\* by the text of the current item
Regen(cfg) ==
    IF process_list[sel].text = "roughing" THEN Some(BuildRoughingPath(CurDxf, cfg))
    ELSE IF process_list[sel].text = "smoothing" THEN Some(BuildSmoothingPath(CurDxf, cfg))
    ELSE None

\* _mk_spin's _on_change for a spin box that affects the geometry
UiSetSpin(key, v) ==
    /\ Editing /\ sel >= 1
    /\ plan_in' = Some([dxf |-> CurDxf, cfg |-> [CurCfg EXCEPT ![key] = v]])
    /\ \E new_path \in {Regen([CurCfg EXCEPT ![key] = v])} :
          IF IsNone(new_path)
          THEN UNCHANGED <<mgr_passes, process_list>>
          ELSE /\ mgr_passes' = [mgr_passes EXCEPT ![sel] = Val(new_path)]
               /\ process_list' = [process_list EXCEPT ![sel].data = Val(new_path)]
    /\ UNCHANGED <<plan_out, sel, handed, genVars>>

\* the post processor built from the gathered points, saved
ExportSaved(controller) ==
    /\ handed' = Some([points |-> RoughPts(mgr_passes), smoothing_pts |-> SmoothPts(mgr_passes)])
    /\ post' = Some(PostAfterGenerate(ExportPost(mgr_passes, PipeExportCfg(CurCfg, controller)),
                       PostGenerate(ExportPost(mgr_passes, PipeExportCfg(CurCfg, controller)))))
    /\ out_file' = Some([suffix |-> Suffix(ExportPost(mgr_passes, PipeExportCfg(CurCfg, controller))),
                         lines |-> PostGenerate(ExportPost(mgr_passes,
                                                    PipeExportCfg(CurCfg, controller))).lines])
    /\ gen_err' = "none"

\* MainWindow.export_gcode: a warning without roughing points, else build and save
UiExport(controller) ==
    /\ Editing /\ sel >= 1
    /\ gen_op' = "ui_export"
    /\ IF RoughPts(mgr_passes) = <<>>
       THEN gen_err' = "warning" /\ UNCHANGED <<post, out_file, handed>>
       ELSE ExportSaved(controller)
    /\ UNCHANGED <<planVars, mgr_passes, sel, process_list, prog>>

\* operations.generate_path, its caller keeping the Path it returns
OpsGeneratePath(label) ==
    /\ Editing /\ sel = 0 /\ Len(mgr_passes) < MaxProcs
    /\ mgr_passes' = IF GeneratePath(CurDxf, CurCfg, label).status = "ok"
                     THEN Append(mgr_passes, Val(GeneratePath(CurDxf, CurCfg, label).path))
                     ELSE mgr_passes
    /\ UNCHANGED <<planVars, sel, handed, process_list, genVars>>

\* operations.export_gcode on the Paths generate_path returned
OpsExportGcode(controller) ==
    /\ Editing /\ sel = 0
    /\ gen_op' = "export"
    /\ IF RoughPts(mgr_passes) = <<>>
       THEN gen_err' = "ValueError" /\ UNCHANGED <<post, out_file, handed>>
       ELSE ExportSaved(controller)
    /\ UNCHANGED <<planVars, mgr_passes, sel, process_list, prog>>

\* no planner call and no post processor object
NoPlan == plan_in = None /\ plan_out = None
NoGen  ==
    /\ post = None /\ prog = None /\ out_file = None
    /\ gen_op = "none" /\ gen_err = "none"

\* no process list and no post processor constructed from one
NoUi == mgr_passes = <<>> /\ sel = 0 /\ handed = None /\ process_list = <<>>

InitProbe == ProbeInit /\ NoPlan /\ NoGen /\ NoUi

NextProbe ==
    \/ \E source \in RebuildSources : Rebuild(source) /\ UNCHANGED <<planVars, genVars, uiVars>>
    \/ \E x \in ProbeXs : QueryHighestY(x) /\ UNCHANGED <<planVars, genVars, uiVars>>

SpecProbe == InitProbe /\ [][NextProbe]_vars

InitPlan ==
    /\ NoProbe /\ NoGen /\ NoUi
    /\ plan_in \in {Some([dxf |-> d, cfg |-> c]) : d \in PlanDrawings, c \in PlanCfgs}
    /\ plan_out = None

NextPlan ==
    \/ CallBuildRoughing /\ UNCHANGED <<probeVars, genVars, uiVars>>
    \/ CallBuildSmoothing /\ UNCHANGED <<probeVars, genVars, uiVars>>
    \/ CallSampleOutline /\ UNCHANGED <<probeVars, genVars, uiVars>>
    \/ \E span \in SampleSpans : CallSampleSpan(span) /\ UNCHANGED <<probeVars, genVars, uiVars>>
    \/ \E label \in PlanLabels : CallGeneratePath(label) /\ UNCHANGED <<probeVars, genVars, uiVars>>
    \/ \E label \in PlanLabels : CallPlanDiverges(label) /\ UNCHANGED <<probeVars, genVars, uiVars>>

SpecPlan == InitPlan /\ [][NextPlan]_vars

InitReduce ==
    /\ NoProbe /\ NoGen /\ NoUi
    /\ plan_in \in {Some([points |-> pts]) : pts \in PointSeqs(MaxCols)}
    /\ plan_out = None

NextReduce == ApplyReduce /\ UNCHANGED <<probeVars, genVars, uiVars>>

SpecReduce == InitReduce /\ [][NextReduce]_vars

InitPipe ==
    /\ NoProbe /\ NoGen
    /\ plan_in \in {Some([dxf |-> d, cfg |-> PipeCfg]) : d \in PipeDrawings}
    /\ plan_out = None
    /\ sel \in {0, 1}
    /\ mgr_passes = IF sel = 0 THEN <<>> ELSE <<DxfInfoEntry>>
    /\ process_list = IF sel = 0 THEN <<>> ELSE <<MkItem("dxf", DxfInfoEntry)>>
    /\ handed = None

NextPipe ==
    \/ \E d \in PipeDrawings : UiOpenDxf(d) /\ UNCHANGED probeVars
    \/ UiGenerateRoughing /\ UNCHANGED probeVars
    \/ UiGenerateSmoothing /\ UNCHANGED probeVars
    \/ \E row \in 1..(MaxProcs + 1) : UiSelect(row) /\ UNCHANGED probeVars
    \/ \E key \in {"roughing_stepover", "smoothing_resolution"}, v \in PipeSteps :
           UiSetSpin(key, v) /\ UNCHANGED probeVars
    \/ \E c \in {"Osai", "Breton"} : UiExport(c) /\ UNCHANGED probeVars
    \/ \E tgt \in 1..(MaxProcs + 1) : UiDrop(tgt) /\ UNCHANGED probeVars
    \/ UiDelete /\ UNCHANGED probeVars
    \/ \E label \in PlanLabels : OpsGeneratePath(label) /\ UNCHANGED probeVars
    \/ \E c \in {"Osai", "Breton"} : OpsExportGcode(c) /\ UNCHANGED probeVars

SpecPipe == InitPipe /\ [][NextPipe]_vars

InitGen ==
    /\ NoProbe /\ NoPlan /\ sel = 0 /\ handed = None /\ process_list = <<>>
    /\ \/ post \in {Some(p) : p \in PostInputs} /\ mgr_passes = <<>>
       \/ post = None /\ mgr_passes \in SeqsUpTo(PassEntries, MaxPasses)
    /\ prog = None /\ out_file = None /\ gen_op = "none" /\ gen_err = "none"

NextGen ==
    \/ Generate /\ UNCHANGED <<probeVars, planVars, uiVars>>
    \/ Save /\ UNCHANGED <<probeVars, planVars, uiVars>>
    \/ CallDiverges /\ UNCHANGED <<probeVars, planVars, uiVars>>
    \/ \E cfg \in ExportCfgs :
           ExportGcode(mgr_passes, cfg)
           /\ UNCHANGED <<probeVars, planVars, mgr_passes, sel, process_list>>

SpecGen == InitGen /\ [][NextGen]_vars

----------------------------------------------------------------------------
(* Claims about the probe.                                                 *)

\* the heights at which the entities of a bucket are hit at x
Hits(bucket, x) ==
    {Val(YAtX(bucket[i], x)) : i \in {j \in 1..Len(bucket) : ~IsNone(YAtX(bucket[j], x))}}

\* y is the greatest element of the non-empty set H
IsMaxOf(y, H) == y \in H /\ \A h \in H : NumLeq(h, y)

BucketOrder == <<arcs, circs, polys, lines>>

\* C1: highest_y(x) returns the maximum hit of the first bucket, in the order
\* Arc, Circle, Polyline, Segment, that is hit at all at x; the hits of the
\* later buckets, higher or not, do not change the answer.
C1_BucketPriority ==
    probe_op = "highest_y" =>
        \A k \in 1..4 :
            ( /\ Hits(BucketOrder[k], Val(probe_x)) # {}
              /\ \A j \in 1..(k - 1) : Hits(BucketOrder[j], Val(probe_x)) = {} )
            => /\ ~IsNone(probe_y)
               /\ IsMaxOf(Val(probe_y), Hits(BucketOrder[k], Val(probe_x)))

\* an Arc is hit below a Circle hit at the same x and the Arc's height is returned
C1_Witness ==
    /\ probe_op = "highest_y"
    /\ Hits(arcs, Val(probe_x)) # {}
    /\ \E c \in Hits(circs, Val(probe_x)) :
           \A a \in Hits(arcs, Val(probe_x)) : NumLt(a, c)
    /\ Val(probe_y) \in Hits(arcs, Val(probe_x))

\* C10: when no entity of any bucket is hit at x, highest_y(x) is None, which
\* is no number (not 0), and the call returns normally.
C10_NotFound ==
    ( /\ probe_op = "highest_y"
      /\ \A k \in 1..4 : Hits(BucketOrder[k], Val(probe_x)) = {} )
    => probe_y = None /\ probe_y # Some(Int2Num(0))

\* a probe that holds entities, none of them hit at the queried x
C10_Witness ==
    /\ probe_op = "highest_y"
    /\ arcs # <<>> /\ lines # <<>>
    /\ \A k \in 1..4 : Hits(BucketOrder[k], Val(probe_x)) = {}
    /\ probe_y = None

----------------------------------------------------------------------------
(* Claims about the post processors.                                       *)

\* the last call returned a program: the lines generate() returned, or the
\* lines save() wrote
HasProgram == gen_op \in {"generate", "save", "export"} /\ gen_err = "none"
Program == IF gen_op = "generate" THEN Val(prog).lines ELSE Val(out_file).lines

IsMotion(l) == l.kind \in {"G0", "G1"}
IsRetractMaxZ(l) == l.kind = "code" /\ l.text \in {"M18", "M18 ; Retract to max-Z"}
IsStripeComment(l) ==
    l.kind = "comment" /\ l.text \in {"; ---- stripe Y=  dir=fwd ----",
                                      "; ---- stripe Y=  dir=rev ----",
                                      "; ---- stripe Y= ----"}

\* the positions of the lines of P that satisfy Test, ascending
Positions(P, Test(_)) == SelectSeq([i \in 1..Len(P) |-> i], LAMBDA i : Test(P[i]))

\* the words that carry the logical x and y of a coordinate block: X and Y,
\* exchanged under axis inversion
WordX(p, l) == IF p.invert THEN l.Y ELSE l.X
WordY(p, l) == IF p.invert THEN l.X ELSE l.Y

IsRetractClear(p, l) ==
    /\ l.kind = "G0" /\ l.X = None /\ l.Y = None /\ l.Z = Some(Fmt2(p.z_clear))
    /\ l.C = None /\ l.F = None
IsRapidTo(p, l, x, y, c) ==
    /\ l.kind = "G0" /\ WordX(p, l) = Some(Fmt2(x)) /\ WordY(p, l) = Some(Fmt2(y))
    /\ l.Z = None /\ l.C = c /\ l.F = None
IsPlungeTo(p, l, z) ==
    /\ l.kind = "G1" /\ l.X = None /\ l.Y = None /\ l.Z = Some(Fmt2(z))
    /\ l.C = None /\ l.F = Some(Fmt0(p.f_plunge))
IsFeedToY(p, l, y, f) ==
    /\ l.kind = "G1" /\ WordX(p, l) = None /\ WordY(p, l) = Some(Fmt2(y))
    /\ l.Z = None /\ l.C = None /\ l.F = Some(Fmt0(f))

\* C2: for a non-empty roughing list, in both dialects, the motion lines of the
\* program start with one cycle per point, in input order: retract to the
\* clearance height, rapid to (x, traverse_start) with the rotary code, plunge to
\* the depth at the plunge feed, cut to traverse_end at the roughing feed; nothing
\* but these lines moves between two cycles and the retract M18 follows the last
\* cycle.  (x, y) are the coordinates handed to the coordinate block: under axis
\* inversion they are printed as the Y and X words.
C2_RoughingCycles ==
    (HasProgram /\ Val(post).points # <<>>) =>
        LET p == Val(post)
            P == Program
            N == Len(p.points)
            m == Positions(P, IsMotion)
        IN  /\ Len(m) >= 4 * N
            /\ \A i \in 1..N :
                  /\ IsRetractClear(p, P[m[4 * i - 3]])
                  /\ IsRapidTo(p, P[m[4 * i - 2]], p.points[i][1], p.y0, Some(CCode(p)))
                  /\ IsPlungeTo(p, P[m[4 * i - 1]], p.points[i][2])
                  /\ IsFeedToY(p, P[m[4 * i]], p.y1, p.f_cut)
            /\ m[4 * N] < Len(P) /\ IsRetractMaxZ(P[m[4 * N] + 1])

\* a program for two roughing points was written under axis inversion
C2_Witness ==
    /\ HasProgram /\ gen_op = "save"
    /\ Len(Val(post).points) = 2 /\ Val(post).invert
    /\ Val(post).dialect = "Breton"

\* the number of stripes the claim of C3 names: the k >= 0 with y0 + k*step not
\* past y1 in the direction of the step
StripeCount(p) ==
    IF p.y0 > p.y1 THEN (p.y0 - p.y1) \div p.y_step + 1
    ELSE (p.y1 - p.y0) \div p.y_step + 1

\* the y printed by the stripe comments of P, in order
StripeYs(P) ==
    LET c == Positions(P, IsStripeComment)
    IN  [k \in 1..Len(c) |-> Val(P[c[k]].arg)]

\* C3: with smoothing points and a stripe step of magnitude s > 0 the program
\* has exactly one stripe at each y_k = traverse_start + k*step (step = -s when
\* traverse_start > traverse_end, +s otherwise), k = 0, 1, ..., for exactly the
\* k whose y_k has not passed traverse_end; each stripe opens with the cut to
\* its y, so no stripe lies beyond traverse_end.
C3_StripePositions ==
    (HasProgram /\ Val(post).smooth # <<>> /\ Val(post).y_step > 0) =>
        LET p == Val(post)
            P == Program
            step == IF p.y0 > p.y1 THEN -p.y_step ELSE p.y_step
            c == Positions(P, IsStripeComment)
        IN  /\ StripeYs(P) = [k \in 1..StripeCount(p) |-> Fmt2(p.y0 + (k - 1) * step)]
            /\ \A k \in 1..Len(c) :
                  \E j \in (c[k] + 1)..Len(P) :
                      /\ IsFeedToY(p, P[j], p.y0 + (k - 1) * step, p.f_cut)
                      /\ \A i \in (c[k] + 1)..(j - 1) : ~IsStripeComment(P[i])
                  /\ IF p.y0 > p.y1 THEN p.y0 + (k - 1) * step >= p.y1
                     ELSE p.y0 + (k - 1) * step <= p.y1

\* traverse_start = 100, traverse_end = 90, step 10: the two stripes 100 and 90
C3_Witness ==
    /\ HasProgram /\ Val(post).smooth # <<>>
    /\ Val(post).y0 = 100000 /\ Val(post).y1 = 90000 /\ Val(post).y_step = 10000
    /\ StripeYs(Program) = <<Fmt2(100000), Fmt2(90000)>>

IsEndSmoothing(l) == l.kind = "comment" /\ l.text = "; ---- end smoothing ----"

\* the positions of the lines of the k-th stripe of P, its comment excluded
StripeLines(P, k) ==
    LET c == Positions(P, IsStripeComment)
        e == Positions(P, IsEndSmoothing)
    IN  (c[k] + 1)..((IF k < Len(c) THEN c[k + 1] ELSE e[1]) - 1)

\* a rapid that carries a Z word; a feed move that carries only a Z word
HasRetract(l) == l.kind = "G0" /\ l.Z # None
HasPlunge(l) == l.kind = "G1" /\ l.X = None /\ l.Y = None /\ l.Z # None

\* C4: only the first stripe of the smoothing block retracts to the clearance
\* height, rapids to its first point's (x, y) with the rotary code and plunges
\* to that point's depth; every later stripe has a single rapid, to (x of its
\* first point, stripe y) without a rotary code, and neither a retract nor a
\* plunge line.
C4_FirstStripeOnly ==
    (HasProgram /\ Val(post).smooth # <<>> /\ Val(post).y_step > 0) =>
        LET p == Val(post)
            P == Program
            c == Positions(P, IsStripeComment)
            y(k) == p.y0 + (k - 1) * (IF p.y0 > p.y1 THEN -p.y_step ELSE p.y_step)
            pt(k) == IF k % 2 = 1 THEN p.smooth[1] ELSE p.smooth[Len(p.smooth)]
        IN  \A k \in 1..Len(c) :
                IF k = 1
                THEN /\ IsRetractClear(p, P[c[k] + 1])
                     /\ IsRapidTo(p, P[c[k] + 2], pt(k)[1], y(k), Some(CCode(p)))
                     /\ IsPlungeTo(p, P[c[k] + 3], pt(k)[2])
                     /\ \A i \in StripeLines(P, k) :
                           i > c[k] + 3 => ~HasRetract(P[i]) /\ ~HasPlunge(P[i]) /\ P[i].kind # "G0"
                ELSE /\ IsRapidTo(p, P[c[k] + 1], pt(k)[1], y(k), None)
                     /\ \A i \in StripeLines(P, k) :
                           /\ ~HasRetract(P[i]) /\ ~HasPlunge(P[i])
                           /\ i > c[k] + 1 => P[i].kind # "G0"

\* a smoothing block of two stripes: the second one starts from the last point
C4_Witness ==
    /\ HasProgram /\ Len(Val(post).smooth) = 2
    /\ Len(Positions(Program, IsStripeComment)) = 2
    /\ Val(post).dialect = "Osai"

\* C5 as the specification states it: a call with zero roughing points fails in
\* the export operation and in the generator itself, before any line is produced
\* and before any file is written.  generate() and save() of both post classes
\* do not check the points: they return and write the header, M18 and the footer.
C5_ZeroPointsFails ==
    (gen_op \in {"generate", "save", "export"} /\ ~IsNone(post) /\ Val(post).points = <<>>)
        => gen_err # "none" /\ IsNone(prog) /\ IsNone(out_file)

\* what the code does hold: the export operation raises before it constructs a
\* post processor, so a post processor built by it always has roughing points
C5_ExportFails ==
    gen_op = "export" => (gen_err = "ValueError" <=> IsNone(post))

\* C7: axis inversion is the exchange of the X and Y words at formatting, and
\* nothing else: the program generated with the flag set has, line by line, the
\* X word the program generated with the flag clear has as Y word and vice
\* versa, with the same Z words, feeds, and number of lines; and the block
\* formatted for (x, y, z) with the flag clear is the block formatted for
\* (y, x, z) with the flag set.
C7_InversionIsExchange ==
    HasProgram =>
        LET p == Val(post)
            P == Program
            Q == PostGenerate([p EXCEPT !.invert = ~p.invert]).lines
        IN  /\ Len(P) = Len(Q)
            /\ \A i \in 1..Len(P) :
                  /\ P[i].kind = Q[i].kind
                  /\ P[i].X = Q[i].Y /\ P[i].Y = Q[i].X
                  /\ P[i].Z = Q[i].Z /\ P[i].F = Q[i].F
                  /\ P[i].C = Q[i].C \/ {P[i].C, Q[i].C} = {Some("C0 A0"), Some("C-90 A0")}
            /\ \A x, y, z \in {None} \cup {Some(v) : v \in {p.y0, p.y1, p.z_clear}} :
                  Xyz(FALSE, x, y, z) = Xyz(TRUE, y, x, z)

\* a program with stripes written under axis inversion: its cuts to a stripe's y
\* carry an X word and no Y word
C7_Witness ==
    /\ HasProgram /\ Val(post).invert /\ Val(post).smooth # <<>>
    /\ Val(post).points # <<>>
    /\ \E i \in 1..Len(Program) :
          Program[i].kind = "G1" /\ Program[i].X # None /\ Program[i].Y = None /\ Program[i].Z = None

----------------------------------------------------------------------------
(* Claims about the planner.                                               *)

PlanCall == Val(plan_out)
Returned(fn) == ~IsNone(plan_out) /\ PlanCall.fn = fn /\ PlanCall.status = "ok"

\* C6 as the specification states it: the reduction applied to its own output
\* returns that output unchanged, for every point sequence with ascending x.
\* The single pass tests a point against the point that follows it in the
\* input; once that point is dropped the kept point has a new successor, and
\* with a tolerance the test against the new successor can succeed.
C6_ReduceIdempotent ==
    Returned("reduce") =>
        Reduce(Val(PlanCall.path).points) = Val(PlanCall.path).points

\* the sampler's columns with a flat start and a bump: B survives the first
\* pass, C does not, and B does not survive a second pass
C6_FailingInput ==
    /\ Returned("reduce")
    /\ Val(plan_in).points = <<<<0, 0>>, <<10, 0>>, <<20, 0>>, <<30, 60>>, <<40, 45>>>>
    /\ Val(PlanCall.path).points = <<<<0, 0>>, <<20, 0>>, <<40, 45>>>>
    /\ Reduce(Val(PlanCall.path).points) = <<<<0, 0>>, <<40, 45>>>>

\* C8 as the specification states it: build_roughing never returns a Path whose
\* point list is empty.  planner.build_roughing_path returns whatever the
\* sampler found; only operations.generate_path raises on an empty list.
C8_RoughingNeverEmpty ==
    Returned("build_roughing_path") => Val(PlanCall.path).points # <<>>

\* what the code does hold: generate_path raises instead of returning no points
C8_GeneratePathNeverEmpty ==
    (~IsNone(plan_out) /\ PlanCall.fn = "generate_path") =>
        IF PlanCall.status = "ok" THEN Val(PlanCall.path).points # <<>>
        ELSE PlanCall.status = "ValueError" /\ IsNone(PlanCall.path)

\* C9 as the specification states it: build_smoothing never returns a smoothing
\* Path with 0 or 1 points.  planner.build_smoothing_path returns the reduced
\* list whatever its length; only operations.generate_path raises.
C9_SmoothingAtLeastTwo ==
    Returned("build_smoothing_path") => Len(Val(PlanCall.path).points) >= 2

\* what the code does hold: a smoothing path from generate_path has two points
C9_GeneratePathAtLeastTwo ==
    (Returned("generate_path") /\ PlanCall.label = "smoothing") =>
        Len(Val(PlanCall.path).points) >= 2

\* the heights of the planner's drawings are integers in every probed column
PlanHeightsExact ==
    ~IsNone(plan_in) =>
        LET dxf == Val(plan_in).dxf
            bw  == Val(plan_in).cfg.blade_width
        IN  \A x \in {500 * k : k \in -4..12}, i \in 1..Offsets :
                LET y == BestY(dxf.source, x, bw)
                IN  ~IsNone(y) => Val(y).s = 0 /\ Val(y).q = 1

\* the probe's answer at x over the entities of a drawing
ProbeAt(source, x) ==
    HighestY(OfType(source, "ARC"), OfType(source, "CIRCLE"),
             OfType(source, "LWPOLYLINE"), OfType(source, "LINE"), x)

\* the values the lateral probes of column x return: at x + blade_width*i/(offsets-1)
LateralHits(source, x, bw) ==
    {Val(ProbeAt(source, x + (bw * i) \div (Offsets - 1))) :
        i \in {j \in 0..(Offsets - 1) :
                  ~IsNone(ProbeAt(source, x + (bw * j) \div (Offsets - 1)))}}

ProbeHoldsOnly(e) == arcs \o circs \o polys \o lines = <<e>>

\* (y - cy)^2 = T for the exact number y
SqDistIs(y, cy, T) ==
    IF y.s = 0 \/ y.d = 0 THEN (y.n - cy * y.q) * (y.n - cy * y.q) = T * y.q * y.q
    ELSE y.n = cy * y.q /\ y.s * y.s * y.d = T * y.q * y.q

\* C18: for a Circle with centre (cx, cy) and radius r > 0, highest_y(x) is
\* 'not found' exactly when |x - cx| > r; otherwise it is the y >= cy with
\* (y - cy)^2 = r^2 - (x - cx)^2, never a point of the lower half.
C18_CircleUpperHalf ==
    ( /\ probe_op = "highest_y" /\ Len(circs) = 1 /\ ProbeHoldsOnly(circs[1])
      /\ circs[1].r > 0 )
    => LET c == circs[1]
           dx == Val(probe_x) - c.cx
       IN  /\ IsNone(probe_y) <=> Abs(dx) > c.r
           /\ ~IsNone(probe_y) =>
                 /\ NumLeq(Int2Num(c.cy), Val(probe_y))
                 /\ SqDistIs(Val(probe_y), c.cy, c.r * c.r - dx * dx)

\* the circle of radius 3 about (1, 2) probed strictly inside, off its centre:
\* the height 2 + sqrt(5) or 2 + sqrt(8), above the centre
C18_Witness ==
    /\ probe_op = "highest_y" /\ ProbeHoldsOnly(MkCircle(1, 2, 3))
    /\ Val(probe_x) \in {-1, 0, 2, 3}
    /\ ~IsNone(probe_y) /\ Val(probe_y).d \in {5, 8}
    /\ NumLt(Int2Num(4), Val(probe_y))

\* the exact number y is the fraction num / den, den # 0
IsFraction(y, num, den) == (y.s = 0 \/ y.d = 0) /\ y.n * den = num * y.q

ArcKeeps(arc, sdx, sdy) ==
    LET a  == AngleDeg(sdx, sdy) % FullTurn
        st == (IF arc.ccw THEN arc.start ELSE arc.end) % FullTurn
        en == (IF arc.ccw THEN arc.end ELSE arc.start) % FullTurn
    IN  IF st <= en THEN st <= a /\ a <= en ELSE (a >= st \/ a <= en)

\* the heights of the candidates of arc at x that pass the angle test
ArcKept(arc, x) ==
    LET dx == x - arc.cx
        d  == arc.r * arc.r - dx * dx
        sd == IF d = 0 THEN 0 ELSE 1
    IN  IF Abs(dx) > arc.r THEN {}
        ELSE {Surd(arc.cy, sg, d, arc.r) : sg \in {t \in {1, -1} : ArcKeeps(arc, Sign(dx), t * sd)}}

\* C20: for an Arc each of the two candidate points at x is kept exactly when
\* its polar angle a about the centre, with a, start and end in [0, 360),
\* satisfies, counter-clockwise: start <= a <= end if start <= end, and
\* (a >= start or a <= end) if start > end; clockwise: the same with start and
\* end exchanged.  highest_y returns the maximum y of the kept candidates, or
\* 'not found' if none is kept: the counter-clockwise arc 0..180 of radius r
\* about the origin returns r at x = 0 and 'not found' for x < -r.
C20_ArcAngleTest ==
    (probe_op = "highest_y" /\ Len(arcs) = 1 /\ ProbeHoldsOnly(arcs[1])) =>
        LET arc == arcs[1]
            x == Val(probe_x)
        IN  /\ IsNone(probe_y) <=> ArcKept(arc, x) = {}
            /\ ~IsNone(probe_y) => IsMaxOf(Val(probe_y), ArcKept(arc, x))
            /\ (arc = MkArc(0, 0, 5, 0, 4, TRUE) /\ x = 0) => probe_y = Some(Int2Num(5))
            /\ (arc = MkArc(0, 0, 5, 0, 4, TRUE) /\ x < -5) => probe_y = None

\* the clockwise arc 0..180 about the origin, which is the lower half: at x = 3
\* only the lower candidate (3, -4) is kept
C20_Witness ==
    /\ probe_op = "highest_y" /\ ProbeHoldsOnly(MkArc(0, 0, 5, 0, 4, FALSE))
    /\ probe_x = Some(3) /\ probe_y = Some(Int2Num(-4))

\* the counter-clockwise arc 0..180 of radius 5 about the origin at x = 0
C20_WitnessTop ==
    /\ probe_op = "highest_y" /\ ProbeHoldsOnly(MkArc(0, 0, 5, 0, 4, TRUE))
    /\ probe_x = Some(0) /\ probe_y = Some(Int2Num(5))

\* a Circle or an Arc of radius <= 0, a Segment whose endpoints are equal
IsDegenerate(e) ==
    IF e.type \in {"ARC", "CIRCLE"} THEN e.r <= 0
    ELSE IF e.type = "LINE" THEN e.x1 = e.x2 /\ e.y1 = e.y2
    ELSE FALSE

AllDegenerate(bucket) == \A i \in 1..Len(bucket) : IsDegenerate(bucket[i])

\* C16 as the specification states it: a probe that holds only degenerate
\* primitives answers 'not found' at every x, the centre of a radius-0 Circle or
\* Arc and the x of a zero-length Segment included.  In _y_circle and _y_arc the
\* test abs(dx) > r is false for r = 0 at dx = 0, and _y_line takes the vertical
\* branch for equal endpoints, so each of them returns the point's own y.
C16_DegenerateNotFound ==
    ( /\ probe_op = "highest_y" /\ polys = <<>>
      /\ AllDegenerate(arcs) /\ AllDegenerate(circs) /\ AllDegenerate(lines) )
    => probe_y = None

\* the failing input: a radius-0 Circle probed at its centre returns the centre's y
C16_FailingInput ==
    /\ probe_op = "highest_y" /\ arcs = <<>> /\ polys = <<>> /\ lines = <<>>
    /\ circs = <<MkCircle(0, 0, 0)>> /\ probe_x = Some(0)
    /\ probe_y = Some(Int2Num(0))

\* what the code does hold: a negative radius is never hit; a degenerate
\* primitive is hit at most at its own x and then yields its own y; and every
\* query returns, with a height or with None
C16_DegenerateHitsOnlyItself ==
    probe_op = "highest_y" =>
        /\ \A k \in 1..4 : \A i \in 1..Len(BucketOrder[k]) :
              LET e == BucketOrder[k][i]
                  y == YAtX(e, Val(probe_x))
              IN  IsDegenerate(e) =>
                     IF e.type = "LINE"
                     THEN y = (IF Val(probe_x) = e.x1 THEN Some(Int2Num(e.y1)) ELSE None)
                     ELSE /\ e.r < 0 => y = None
                          /\ Val(probe_x) # e.cx => y = None
                          /\ ~IsNone(y) => NumLeq(Val(y), Int2Num(e.cy)) /\ NumLeq(Int2Num(e.cy), Val(y))
        /\ IsNone(probe_y) \/ Len(probe_y) = 1

\* C17 as the specification states it: every pipeline call terminates;
\* sample_outline finishes for every xmin <= xmax and every step the settings
\* allow, 0 included.  With x_step = 0 the statement x += x_step leaves x where
\* it is and `while x <= xmax` never becomes false.
C17_SamplingTerminates ==
    ~IsNone(plan_out) => PlanCall.status # "hang"

\* the failing input: a roughing stepover of 0 on a drawing with xmin <= xmax
C17_FailingInput ==
    /\ ~IsNone(plan_out) /\ PlanCall.status = "hang" /\ PlanCall.label = "roughing"
    /\ Val(plan_in).cfg.roughing_stepover = 0
    /\ Val(plan_in).dxf.xmin - Val(plan_in).cfg.blade_width
          <= Val(plan_in).dxf.xmax + Val(plan_in).cfg.blade_width

\* the same for the stripe loop of generate(): with a stripe step of 0 (y_step
\* and blade width both 0) and traverse_start <= traverse_end, y never passes
\* traverse_end
C17_StripeLoopTerminates == gen_op # "hang"

\* what the code does hold: with a positive step the sampler returns, and with
\* at most floor((xmax - xmin) / x_step) + 1 samples
C17_PositiveStepBounded ==
    Returned("sample_outline") =>
        LET dxf == Val(plan_in).dxf
            cfg == Val(plan_in).cfg
        IN  /\ cfg.roughing_stepover > 0
            /\ Len(Val(PlanCall.path).points)
                  <= IF dxf.xmin - cfg.blade_width > dxf.xmax + cfg.blade_width THEN 0
                     ELSE ((dxf.xmax + cfg.blade_width) - (dxf.xmin - cfg.blade_width))
                              \div cfg.roughing_stepover + 1

----------------------------------------------------------------------------
(* Claims about the routes from planning to export.                        *)

\* C12 as the specification states it: on every route from planning to export
\* the post processor is constructed only with a non-empty roughing point list
\* and with smoothing points that are absent or non-empty.  Live regeneration
\* stores whatever the planner returns; an emptied smoothing Path is then
\* gathered by the export as the list [] and handed to the constructor.
C12_NoEmptyPathHanded ==
    ~IsNone(handed) =>
        /\ Val(handed).points # <<>>
        /\ IsNone(Val(handed).smoothing_pts) \/ Val(Val(handed).smoothing_pts) # <<>>

\* the UI route on which it fails: a stored smoothing Path emptied by regeneration
C12_FailingRoute ==
    /\ gen_op = "ui_export" /\ ~IsNone(handed)
    /\ Val(handed).smoothing_pts = Some(<<>>)
    /\ \E i \in 1..Len(mgr_passes) :
          mgr_passes[i] = MkPath(<<>>, "smoothing")

\* what the code does hold: the roughing list handed over is never empty, and on
\* the route through generate_path and export_gcode the smoothing list is not either
C12_RoughingHandedNonEmpty ==
    ~IsNone(handed) =>
        /\ Val(handed).points # <<>>
        /\ sel = 0 => (IsNone(Val(handed).smoothing_pts)
                          \/ Len(Val(Val(handed).smoothing_pts)) >= 2)

----------------------------------------------------------------------------
(* Claims about the layout of a program and about the two dialects.        *)

\* a line without its Breton line number
Unnumbered(l) == [l EXCEPT !.n = None]
Body(P) == [i \in 1..Len(P) |-> Unnumbered(P[i])]

DialectHeader(p) == IF p.dialect = "Breton" THEN BretonHeader(p) ELSE OsaiHeader(p)
DialectFooter(p) == IF p.dialect = "Breton" THEN BretonFooter ELSE OsaiFooter

IsRoughComment(l) == l.kind = "comment" /\ l.text = "; ---- Rough # ----"
IsSmoothingBanner(l) == l.kind = "comment" /\ l.text \in {";  SMOOTHING PASSES", "; ======"}
\* a line only the smoothing block writes
IsSmoothingLine(l) == IsStripeComment(l) \/ IsEndSmoothing(l) \/ IsSmoothingBanner(l)

\* the lines of a roughing block: five per point, then the retract to max-Z
RoughBlockLen(p) == 5 * Len(p.points) + 1

C13_WitnessNoSmoothing ==
    /\ HasProgram /\ Val(post).dialect = "Osai"
    /\ Val(post).smooth = <<>> /\ Val(post).points # <<>>
    /\ Len(Program) = Len(OsaiHeader(Val(post))) + RoughBlockLen(Val(post)) + Len(OsaiFooter)

\* the motion lines of P in order: the move, its words, rotary code and feed
MotionLines(P) ==
    LET m == Positions(P, IsMotion)
    IN  [k \in 1..Len(m) |->
            [kind |-> P[m[k]].kind, X |-> P[m[k]].X, Y |-> P[m[k]].Y, Z |-> P[m[k]].Z,
             C |-> P[m[k]].C, F |-> P[m[k]].F]]

\* the same points and parameters given to the other post class
AsDialect(p, d) == [p EXCEPT !.dialect = d, !.counter = 1]

\* C14: for equal roughing points, smoothing points and parameters the motion
\* lines (G0/G1 moves with their coordinates, rotary codes and feed words) of
\* the Osai program equal, line for line, those of the Breton program; without
\* Breton's line numbers the whole motion lines are equal; every other line is
\* a comment or a command line, and the file suffixes differ.
C14_SameMotion ==
    HasProgram =>
        LET p == Val(post)
            A == OsaiGenerate(AsDialect(p, "Osai")).lines
            B == BretonGenerate(AsDialect(p, "Breton")).lines
        IN  /\ MotionLines(Program) = MotionLines(A)
            /\ MotionLines(A) = MotionLines(B)
            /\ ~p.number_lines => SelectSeq(A, IsMotion) = SelectSeq(B, IsMotion)
            /\ \A i \in 1..Len(A) : ~IsMotion(A[i]) => A[i].kind \in {"comment", "code"}
            /\ \A i \in 1..Len(B) : ~IsMotion(B[i]) => B[i].kind \in {"comment", "code"}
            /\ Suffix(AsDialect(p, "Osai")) # Suffix(AsDialect(p, "Breton"))

\* a Breton program with roughing cycles and two stripes, compared with Osai's
C14_Witness ==
    /\ HasProgram /\ Val(post).dialect = "Breton"
    /\ Len(Val(post).points) = 2 /\ Len(Val(post).smooth) = 2
    /\ Len(Positions(Program, IsStripeComment)) = 2
    /\ Len(MotionLines(Program)) >= 8 + 3 + 2 * 3 + 1

\* C15 as the specification states it: generate() is a pure transformation;
\* every further call on the same object returns the identical sequence of
\* lines and leaves points, smoothing points and every parameter unchanged, in
\* both dialects and for every option value, Breton's line numbering included.
\* BretonPost._line increments self._counter and generate() never resets it, so
\* with line_numbers a second call numbers its lines from where the first ended.
C15_GeneratePure ==
    [][(gen_op = "generate" /\ gen_op' = "generate" /\ gen_err = "none")
          => (prog' = prog /\ post' = post)]_vars

\* the failing input: a numbered Breton program generated a second time
C15_FailingInput ==
    /\ gen_op = "generate" /\ gen_err = "none"
    /\ Val(post).dialect = "Breton" /\ Val(post).number_lines
    /\ Val(prog).lines[1].n # Some(1)
    /\ Body(Val(prog).lines) = Body(BretonGenerate(AsDialect(Val(post), "Breton")).lines)

\* what the code does hold: a further call changes nothing but Breton's line
\* counter and the line numbers; without line numbering it changes nothing
C15_PureButForNumbers ==
    [][(gen_op = "generate" /\ gen_op' = "generate" /\ gen_err = "none")
          => /\ Body(Val(prog').lines) = Body(Val(prog).lines)
             /\ [Val(post') EXCEPT !.counter = 1] = [Val(post) EXCEPT !.counter = 1]
             /\ ~Val(post).number_lines => (prog' = prog /\ post' = post)]_vars

----------------------------------------------------------------------------
(* Claims about the stripes of the smoothing block.                        *)

\* a feed move along the profile: an x word and a Z word, no y word
IsCutLine(p, l) ==
    l.kind = "G1" /\ WordX(p, l) # None /\ WordY(p, l) = None /\ l.Z # None

\* the cut lines of the k-th stripe of P, in order
StripeCuts(p, P, k) ==
    LET ps == SelectSeq([i \in 1..Len(P) |-> i],
                        LAMBDA i : i \in StripeLines(P, k) /\ IsCutLine(p, P[i]))
    IN  [j \in 1..Len(ps) |-> P[ps[j]]]

\* the cut line generate() writes for the point pt
IsCutTo(p, l, pt) ==
    /\ IsCutLine(p, l)
    /\ WordX(p, l) = Some(Fmt2(pt[1])) /\ l.Z = Some(Fmt2(pt[2]))
    /\ l.C = None /\ l.F = Some(Fmt0(p.f_xy))

\* C21: the stripe direction alternates on every stripe, starting forward:
\* stripe k (k = 0 for the first) has one cut line per smoothing point, at the
\* lateral cut feed, through the points in their given order when k is even
\* and in exactly reversed order when k is odd; and no call reorders the stored
\* smoothing points.
C21_StripesAlternate ==
    /\ [](( HasProgram /\ Val(post).smooth # <<>> /\ Val(post).y_step > 0 ) =>
            LET p == Val(post)
                P == Program
                n == Len(p.smooth)
            IN  \A k \in 1..Len(Positions(P, IsStripeComment)) :
                   /\ Len(StripeCuts(p, P, k)) = n
                   /\ \A j \in 1..n :
                         IsCutTo(p, StripeCuts(p, P, k)[j],
                                 IF k % 2 = 1 THEN p.smooth[j] ELSE p.smooth[n + 1 - j]))
    /\ [][(~IsNone(post) /\ ~IsNone(post')) => Val(post').smooth = Val(post).smooth]_vars

\* two smoothing points cut in two stripes: the second stripe starts with the
\* last point
C21_Witness ==
    /\ HasProgram /\ Len(Val(post).smooth) = 2
    /\ Len(Positions(Program, IsStripeComment)) = 2
    /\ IsCutTo(Val(post), StripeCuts(Val(post), Program, 2)[1], Val(post).smooth[2])
    /\ IsCutTo(Val(post), StripeCuts(Val(post), Program, 2)[2], Val(post).smooth[1])

\* the lines of the k-th stripe of P that follow its last cut line
AfterCuts(p, P, k) ==
    LET cuts == {i \in StripeLines(P, k) : IsCutLine(p, P[i])}
    IN  {i \in StripeLines(P, k) : \A c \in cuts : i > c}

\* the y of the k-th stripe, k = 1 for the first
StripeY(p, k) == p.y0 + (k - 1) * StripeStep(p)

\* C22: after the cut lines of a stripe a step-over move to the next stripe's y
\* at the plunge feed is written if and only if a further stripe follows, so the
\* step-over targets are exactly the y of the stripes 2..n and none lies beyond
\* traverse_end; after the last stripe the block ends with the retract to the
\* clearance height.
C22_StepOverIffNextStripe ==
    (HasProgram /\ Val(post).smooth # <<>> /\ Val(post).y_step > 0) =>
        LET p == Val(post)
            P == Program
            n == Len(Positions(P, IsStripeComment))
            e == Positions(P, IsEndSmoothing)[1]
        IN  /\ \A k \in 1..n :
                  IF k < n
                  THEN /\ Cardinality(AfterCuts(p, P, k)) = 1
                       /\ \A i \in AfterCuts(p, P, k) :
                             /\ IsFeedToY(p, P[i], StripeY(p, k + 1), p.f_plunge)
                             /\ IF p.y0 > p.y1 THEN StripeY(p, k + 1) >= p.y1
                                ELSE StripeY(p, k + 1) <= p.y1
                  ELSE AfterCuts(p, P, k) = {}
            /\ IsCutLine(p, P[e - 1])
            /\ IsRetractClear(p, P[e + 1])
            /\ IsRetractMaxZ(P[e + 2])

\* a block of two stripes, 100 then 90: one step-over, to 90, and none after
\* the second stripe
C22_Witness ==
    /\ HasProgram /\ Val(post).smooth # <<>> /\ Val(post).dialect = "Breton"
    /\ Val(post).y0 = 100000 /\ Val(post).y1 = 90000 /\ Val(post).y_step = 10000
    /\ Cardinality({i \in 1..Len(Program) :
                       IsFeedToY(Val(post), Program[i], 90000, Val(post).f_plunge)}) = 1
    /\ AfterCuts(Val(post), Program, 2) = {}

----------------------------------------------------------------------------
(* Further claims about the planner and the sampler.                       *)

\* the points of pts at the indices of S, in ascending index order
Restrict(pts, S) == SelectSeq([i \in 1..Len(pts) |-> IF i \in S THEN <<pts[i]>> ELSE <<>>],
                              LAMBDA e : e # <<>>)
PointsAt(pts, S) == [j \in 1..Len(Restrict(pts, S)) |-> Restrict(pts, S)[j][1]]

\* |(x_i - x_k)(y_n - y_k) - (y_i - y_k)(x_n - x_k)| for the points pk, pi, pn
TwiceArea(pk, pi, pn) ==
    Abs((pi[1] - pk[1]) * (pn[2] - pk[2]) - (pi[2] - pk[2]) * (pn[1] - pk[1]))

\* the greatest index of S below i
LastKept(S, i) == CHOOSE k \in S : k < i /\ \A j \in S : j < i => j <= k

\* C23: the reduction of at least 3 points keeps the first and the last point
\* and drops the interior point p_i exactly when
\* |(x_i - x_k)(y_{i+1} - y_k) - (y_i - y_k)(x_{i+1} - x_k)| <= 1e-3, p_k the most
\* recently kept point and p_{i+1} the next raw point; the output is the
\* subsequence of the kept points in input order, and fewer than 3 points are
\* returned unchanged.
C23_OnePassReduction ==
    Returned("reduce") =>
        LET pts == Val(plan_in).points
            out == Val(PlanCall.path).points
            n == Len(pts)
        IN  IF n < 3 THEN out = pts
            ELSE \E S \in SUBSET (1..n) :
                    /\ 1 \in S /\ n \in S
                    /\ \A i \in 2..(n - 1) :
                          i \notin S <=> TwiceArea(pts[LastKept(S, i)], pts[i], pts[i + 1]) <= Tol
                    /\ out = PointsAt(pts, S)

\* an input on which the most recently kept point and the previous raw point
\* decide differently: an interior point is kept, its raw predecessor was
\* dropped, and against that predecessor the area is within the tolerance
C23_Witness ==
    /\ Returned("reduce")
    /\ Len(Val(plan_in).points) >= 4
    /\ \E i \in 2..(Len(Val(plan_in).points) - 1) :
          LET pts == Val(plan_in).points
              out == Val(PlanCall.path).points
          IN  /\ \E j \in 1..Len(out) : out[j] = pts[i]
              /\ \A j \in 1..Len(out) : out[j] # pts[i - 1]
              /\ TwiceArea(pts[i - 1], pts[i], pts[i + 1]) <= Tol

\* the columns of the claim: xmin + k*x_step, k = 0, 1, ..., while not past xmax
Columns(xmin, xmax, x_step) ==
    IF xmin > xmax THEN {}
    ELSE {x \in {xmin + k * x_step : k \in 0..((xmax - xmin) \div x_step + 1)} : x <= xmax}

\* C24: for x_step > 0, sample_outline visits the columns xmin + k*x_step,
\* k = 0, 1, 2, ..., exactly while x <= xmax: a column equal to xmax is visited
\* and xmin > xmax gives an empty result; the returned points are in strictly
\* ascending x, at most one per visited column, one for each visited column at
\* which a probe returns a height.
C24_VisitedColumns ==
    (Returned("sample_span") /\ Val(plan_in).cfg.roughing_stepover > 0) =>
        LET source == Val(plan_in).dxf.source
            bw   == Val(plan_in).cfg.blade_width
            cols == Columns(PlanCall.xmin, PlanCall.xmax, Val(plan_in).cfg.roughing_stepover)
            pts  == Val(PlanCall.path).points
        IN  /\ \A i \in 1..Len(pts) : pts[i][1] \in cols
            /\ \A i \in 1..(Len(pts) - 1) : pts[i][1] < pts[i + 1][1]
            /\ \A x \in cols :
                  (\E i \in 1..Len(pts) : pts[i][1] = x) <=> LateralHits(source, x, bw) # {}
            /\ PlanCall.xmin > PlanCall.xmax => pts = <<>>
            /\ Len(pts) <= Cardinality(cols)

\* the span 0..2000 sampled with step 1000 or 2000: the last column is xmax
\* itself, and it has a sample
C24_Witness ==
    /\ Returned("sample_span") /\ Val(plan_in).cfg.roughing_stepover > 0
    /\ PlanCall.xmin = 0 /\ PlanCall.xmax = 2000
    /\ Val(PlanCall.path).points # <<>>
    /\ Val(PlanCall.path).points[Len(Val(PlanCall.path).points)][1] = 2000
    /\ Len(Val(PlanCall.path).points) >= 2

\* a span with xmin > xmax over a drawing that has a profile: no sample
C24_WitnessEmptySpan ==
    /\ Returned("sample_span") /\ Val(plan_in).cfg.roughing_stepover > 0
    /\ PlanCall.xmin > PlanCall.xmax
    /\ LateralHits(Val(plan_in).dxf.source, PlanCall.xmax, Val(plan_in).cfg.blade_width) # {}
    /\ Val(PlanCall.path).points = <<>>

\* the columns of a span at which a lateral probe returns a height
HitColumns(source, xmin, xmax, x_step, bw) ==
    {x \in Columns(xmin, xmax, x_step) : LateralHits(source, x, bw) # {}}

Xs(pts) == {pts[i][1] : i \in 1..Len(pts)}

\* C25: build_roughing samples [bbox.xmin - blade_width, bbox.xmax + blade_width]
\* with the roughing stepover and build_smoothing samples
\* [bbox.xmin - blade_width, bbox.xmax] with the smoothing resolution: the x of
\* the returned points are columns of the stage's span (all the hit columns for
\* roughing; hit columns, the first and the last among them, for smoothing),
\* every x lies inside the span, and the Path carries the stage's label.
C25_StageSpans ==
    /\ Returned("build_roughing_path") =>
          LET dxf == Val(plan_in).dxf
              cfg == Val(plan_in).cfg
              pts == Val(PlanCall.path).points
              lo  == dxf.xmin - cfg.blade_width
              hi  == dxf.xmax + cfg.blade_width
          IN  /\ Val(PlanCall.path).label = "roughing"
              /\ Xs(pts) = HitColumns(dxf.source, lo, hi, cfg.roughing_stepover, cfg.blade_width)
              /\ \A x \in Xs(pts) : lo <= x /\ x <= hi
    /\ Returned("build_smoothing_path") =>
          LET dxf == Val(plan_in).dxf
              cfg == Val(plan_in).cfg
              pts == Val(PlanCall.path).points
              lo  == dxf.xmin - cfg.blade_width
              hi  == dxf.xmax
              H   == HitColumns(dxf.source, lo, hi, cfg.smoothing_resolution, cfg.blade_width)
          IN  /\ Val(PlanCall.path).label = "smoothing"
              /\ Xs(pts) \subseteq H
              /\ \A h \in H : (\A g \in H : h <= g) \/ (\A g \in H : g <= h) => h \in Xs(pts)
              /\ \A x \in Xs(pts) : lo <= x /\ x <= hi

\* a roughing Path for a blade of width 2000: its first point lies in the blade
\* margin left of the bounding box
C25_Witness ==
    /\ Returned("build_roughing_path")
    /\ Val(plan_in).cfg.blade_width = 2000
    /\ Val(PlanCall.path).points # <<>>
    /\ Val(PlanCall.path).points[1][1] < Val(plan_in).dxf.xmin
    /\ Val(PlanCall.path).label = "roughing"

\* a smoothing Path whose first point lies in the blade margin
C25_WitnessSmoothing ==
    /\ Returned("build_smoothing_path")
    /\ Val(plan_in).cfg.blade_width = 2000
    /\ Len(Val(PlanCall.path).points) >= 2
    /\ Val(PlanCall.path).points[1][1] = Val(plan_in).dxf.xmin - 2000

\* pts with k added to every y
ShiftY(pts, k) == [i \in 1..Len(pts) |-> <<pts[i][1], pts[i][2] + k>>]

\* C26: the stock allowance of a stage (stock_allowance for roughing,
\* smoothing_stock for smoothing, 0 when missing) is added to the y of every
\* sampled point and to nothing else: number, order and x of the points are
\* those of the samples, a zero or missing allowance returns the samples, and
\* build_smoothing reduces the points that already carry the allowance.
C26_StockAllowance ==
    /\ Returned("build_roughing_path") =>
          LET dxf == Val(plan_in).dxf
              cfg == Val(plan_in).cfg
              pts == Val(PlanCall.path).points
              smp == SampleOutline(dxf.source, dxf.xmin - cfg.blade_width,
                                   dxf.xmax + cfg.blade_width, cfg.blade_width,
                                   cfg.roughing_stepover)
          IN  /\ pts = ShiftY(smp, Get(cfg.stock_allowance, 0))
              /\ cfg.stock_allowance \in {None, Some(0)} => pts = smp
    /\ Returned("build_smoothing_path") =>
          LET dxf == Val(plan_in).dxf
              cfg == Val(plan_in).cfg
              pts == Val(PlanCall.path).points
              smp == SampleOutline(dxf.source, dxf.xmin - cfg.blade_width, dxf.xmax,
                                   cfg.blade_width, cfg.smoothing_resolution)
          IN  /\ pts = Reduce(ShiftY(smp, Get(cfg.smoothing_stock, 0)))
              /\ cfg.smoothing_stock \in {None, Some(0)} => pts = Reduce(smp)

\* a roughing Path with an allowance of 0.5: every point lies 0.5 above its sample
C26_Witness ==
    /\ Returned("build_roughing_path")
    /\ Val(plan_in).cfg.stock_allowance = Some(500)
    /\ Len(Val(PlanCall.path).points) >= 2
    /\ Val(PlanCall.path).points[1][2]
          = Height(Val(BestY(Val(plan_in).dxf.source, Val(PlanCall.path).points[1][1],
                             Val(plan_in).cfg.blade_width))) + 500

\* a smoothing Path with an allowance of 0.5 that the reduction shortened
C26_WitnessSmoothing ==
    /\ Returned("build_smoothing_path")
    /\ Val(plan_in).cfg.smoothing_stock = Some(500)
    /\ Len(Val(PlanCall.path).points) >= 2
    /\ Len(Val(PlanCall.path).points)
          < Len(SampleOutline(Val(plan_in).dxf.source,
                              Val(plan_in).dxf.xmin - Val(plan_in).cfg.blade_width,
                              Val(plan_in).dxf.xmax, Val(plan_in).cfg.blade_width,
                              Val(plan_in).cfg.smoothing_resolution))

----------------------------------------------------------------------------
(* Claims about the state of the probe.                                    *)

\* the primitives of S of type t, in source order
Primitives(S, t) == SelectSeq(S, LAMBDA e : e.type = t)

\* the four buckets hold the primitives of S
BucketsHold(ar, ci, po, li, S) ==
    /\ ar = Primitives(S, "ARC") /\ ci = Primitives(S, "CIRCLE")
    /\ po = Primitives(S, "LWPOLYLINE") /\ li = Primitives(S, "LINE")

----------------------------------------------------------------------------
(* Claims about rapid moves.                                               *)

\* the x or y word in force before line i: the last one written, None if none
LastX(p, P, i) ==
    LET w == {j \in 1..(i - 1) : WordX(p, P[j]) # None}
    IN  IF w = {} THEN None ELSE WordX(p, P[CHOOSE j \in w : \A k \in w : k <= j])
LastY(p, P, i) ==
    LET w == {j \in 1..(i - 1) : WordY(p, P[j]) # None}
    IN  IF w = {} THEN None ELSE WordY(p, P[CHOOSE j \in w : \A k \in w : k <= j])

\* a rapid that names an in-plane coordinate
IsInPlaneRapid(l) == l.kind = "G0" /\ (l.X # None \/ l.Y # None)

\* C28: tracking the tool position line by line, a rapid (G0) changes the
\* in-plane position only while Z is at the clearance height: every roughing
\* rapid and the first stripe's rapid directly follow the retract to the
\* clearance height, and on every later stripe the rapid's target is the
\* position the tool already has: the x of the last point cut on the previous
\* stripe and the y it stepped over to.
C28_RapidsAtClearance ==
    (HasProgram /\ Val(post).y_step > 0) =>
        LET p == Val(post)
            P == Program
            c == Positions(P, IsStripeComment)
            later == {c[k] + 1 : k \in 2..Len(c)}
        IN  /\ \A i \in 1..Len(P) :
                  IsInPlaneRapid(P[i]) =>
                      IF i \in later
                      THEN /\ WordX(p, P[i]) = LastX(p, P, i)
                           /\ WordY(p, P[i]) = LastY(p, P, i)
                           /\ IsCutLine(p, P[i - 3]) /\ WordX(p, P[i - 3]) = WordX(p, P[i])
                           /\ P[i - 2].kind = "G1" /\ WordY(p, P[i - 2]) = WordY(p, P[i])
                      ELSE i > 1 /\ IsRetractClear(p, P[i - 1])
            /\ \A i \in later : IsInPlaneRapid(P[i])

\* a program with two roughing cycles and two stripes: the second stripe's
\* rapid does not follow a retract and names the position already reached
C28_Witness ==
    /\ HasProgram /\ Len(Val(post).points) = 2 /\ Len(Val(post).smooth) = 2
    /\ Len(Positions(Program, IsStripeComment)) = 2
    /\ \E i \in 2..Len(Program) :
          /\ IsInPlaneRapid(Program[i]) /\ ~IsRetractClear(Val(post), Program[i - 1])
          /\ WordX(Val(post), Program[i]) = LastX(Val(post), Program, i)
          /\ WordY(Val(post), Program[i]) = LastY(Val(post), Program, i)

----------------------------------------------------------------------------
(* Claims about the export.                                                *)

IsPathOf(e, label) == e.kind = "Path" /\ e.label = label

\* the points of the roughing Paths among the first n entries, in list order
RECURSIVE RoughingUpTo(_, _)
RoughingUpTo(passes, n) ==
    IF n = 0 THEN <<>>
    ELSE RoughingUpTo(passes, n - 1)
         \o (IF IsPathOf(passes[n], "roughing") THEN passes[n].points ELSE <<>>)

\* the rows of the smoothing Paths
SmoothingRows(passes) == {i \in 1..Len(passes) : IsPathOf(passes[i], "smoothing")}

\* the export has run to the construction of the post processor
Exported == gen_op \in {"export", "hang"} /\ ~IsNone(handed)

\* C29: the export gathers from the pass list in list order: the roughing points
\* handed to the generator are the concatenation, in list order, of the points
\* of every roughing Path; the smoothing points are those of the first smoothing
\* Path only, later smoothing Paths and entries that are not Paths being
\* ignored; the pass list and its Paths are unchanged by the export.
C29_ExportGathers ==
    /\ [](Exported =>
            /\ Val(handed).points = RoughingUpTo(mgr_passes, Len(mgr_passes))
            /\ IF SmoothingRows(mgr_passes) = {}
               THEN IsNone(Val(handed).smoothing_pts)
               ELSE \E i \in SmoothingRows(mgr_passes) :
                       /\ \A j \in SmoothingRows(mgr_passes) : i <= j
                       /\ Val(handed).smoothing_pts = Some(mgr_passes[i].points))
    /\ [][gen_op = "none" /\ gen_op' # "none" => mgr_passes' = mgr_passes]_vars

\* an export of a roughing Path followed by two different smoothing Paths: the
\* points of the first smoothing Path are handed over
C29_Witness ==
    /\ Exported /\ gen_err = "none" /\ Len(mgr_passes) = 3
    /\ IsPathOf(mgr_passes[1], "roughing")
    /\ IsPathOf(mgr_passes[2], "smoothing") /\ IsPathOf(mgr_passes[3], "smoothing")
    /\ mgr_passes[2].points # mgr_passes[3].points
    /\ Val(handed).smoothing_pts = Some(mgr_passes[2].points)

\* an export of two roughing Paths around an entry that is not a Path: the points
\* of both, in list order, are handed over and there are no smoothing points
C29_WitnessRoughing ==
    /\ Exported /\ Len(mgr_passes) = 3
    /\ IsPathOf(mgr_passes[1], "roughing") /\ mgr_passes[2].kind = "DxfInfo"
    /\ IsPathOf(mgr_passes[3], "roughing")
    /\ Len(mgr_passes[1].points) = 2 /\ Len(mgr_passes[3].points) = 1
    /\ Val(handed).points = mgr_passes[1].points \o mgr_passes[3].points
    /\ IsNone(Val(handed).smoothing_pts)

----------------------------------------------------------------------------
(* Claims about the process list.                                          *)

\* the pass list and the widget agree row by row and the first row is the DXF
InStep ==
    /\ Len(mgr_passes) = Len(process_list)
    /\ \A i \in 1..Len(process_list) : mgr_passes[i] = process_list[i].data
    /\ process_list[1].text = "dxf" /\ mgr_passes[1] = DxfInfoEntry

\* C30: after any sequence of DXF load, path generation, live regeneration,
\* drag-reorder and delete-key removal, the pass list of the ProcessManager and
\* the process list widget have the same length, entry i of the pass list is the
\* payload of row i, and row 0 is the pinned DXF entry.
C30_ListsInStep == sel >= 1 => InStep

\* the Delete key on a process row: the row is gone from the widget, the pass
\* list still holds its Path, and the handler has raised
C30_DeleteLeavesPass ==
    /\ gen_op = "delete" /\ gen_err = "AttributeError"
    /\ Len(mgr_passes) = Len(process_list) + 1
    /\ process_list[1].text = "dxf"

\* what the code does hold: the lists are in step until a process row is
\* deleted, drag-reorder included, and the DXF row stays first throughout
C30_InStepUntilDelete ==
    sel >= 1 => /\ gen_op # "delete" => InStep
                /\ process_list[1].text = "dxf" /\ mgr_passes[1] = DxfInfoEntry

\* a smoothing row above a different roughing row, current and in step
C30_WitnessReorder ==
    /\ sel = 2 /\ Len(process_list) = 3 /\ InStep
    /\ process_list[2].text = "smoothing" /\ process_list[3].text = "roughing"
    /\ mgr_passes[2].points # mgr_passes[3].points

====
